---- MODULE Spec2Model ----
(***************************************************************************)
(* Portfolio Health Check: the upload -> read -> detect -> resolve ->      *)
(* validate -> transform -> export script of app.py and the pure functions *)
(* of processing/pipeline.py and processing/schema.py it is built from.    *)
(*                                                                         *)
(* Conventions.                                                            *)
(*  - Sheet names and the Meta string are sequences of one-character       *)
(*    strings, so that lower() and the substring test are computed.        *)
(*  - Column names are atomic strings.                                     *)
(*  - A DataFrame is [columns |-> sequence of names, data |-> sequence of  *)
(*    rows], a row being a sequence of cells in column order.              *)
(*  - A cell is <<>> (NaN / None / NaT / unparseable) or <<v>>.            *)
(*  - An input number is a fixed-point integer in quarters: 100.0 is 400,  *)
(*    0.25 is 1.  A computed number is an exact fraction [n, d].           *)
(*  - A categorical cell holds the rank of its label in sorted order.      *)
(*  - Python's None is <<>>, a present value x is <<x>>.                   *)
(***************************************************************************)
EXTENDS Integers, Sequences, FiniteSets, TLC

VARIABLES
    file,           \* the uploaded document (input of the run)
    pc,             \* position of the script / of the caller
    sheets,         \* app.py: sheets (ordered dict name -> DataFrame)
    meta_str,       \* app.py: meta_str
    detected_type,  \* app.py: detected_type
    tmpl_type,      \* app.py: tmpl_type (the selectbox value)
    sheet_name,     \* app.py: sheet_name
    df,             \* app.py: df
    errors,         \* app.py: errors
    rules,          \* result of schema.business_rules
    results,        \* app.py: results
    report,         \* the worksheets of the exported report.xlsx
    notice,         \* what st.error / st.warning displayed
    calls           \* history: the pipeline functions invoked so far

vars == <<file, pc, sheets, meta_str, detected_type, tmpl_type, sheet_name,
          df, errors, rules, results, report, notice, calls>>

---------------------------------------------------------------------------
(* Bounds of the model *)

\* sheets per uploaded workbook
MaxSheets == 2

\* rows per table handed to validate_df / business_rules / transform_results
MaxRows == 3

---------------------------------------------------------------------------
(* Generic helpers *)

None == <<>>

Some(x) == <<x>>

Range(s) == {s[i] : i \in 1..Len(s)}

RECURSIVE SumSeq(_)
SumSeq(s) == IF s = <<>> THEN 0 ELSE Head(s) + SumSeq(Tail(s))

Abs(x) == IF x < 0 THEN -x ELSE x

\* sequences over S of length lo..hi
SeqsOf(S, lo, hi) == UNION {[1..n -> S] : n \in lo..hi}

\* the subsequence of universe whose elements are in S
RECURSIVE SubSeqOf(_, _)
SubSeqOf(universe, S) ==
    IF universe = <<>> THEN <<>>
    ELSE IF Head(universe) \in S
         THEN <<Head(universe)>> \o SubSeqOf(Tail(universe), S)
         ELSE SubSeqOf(Tail(universe), S)

---------------------------------------------------------------------------
(* Strings: str.lower(), `in` *)

UpperChars == <<"A","B","C","D","E","F","G","H","I","J","K","L","M",
                "N","O","P","Q","R","S","T","U","V","W","X","Y","Z">>

LowerChars == <<"a","b","c","d","e","f","g","h","i","j","k","l","m",
                "n","o","p","q","r","s","t","u","v","w","x","y","z">>

LowerChar(c) ==
    IF \E i \in 1..26 : UpperChars[i] = c
    THEN LowerChars[CHOOSE i \in 1..26 : UpperChars[i] = c]
    ELSE c

\* str.lower()
Lower(s) == [i \in 1..Len(s) |-> LowerChar(s[i])]

\* sub in s
Contains(s, sub) ==
    \E k \in 0..(Len(s) - Len(sub)) :
        \A j \in 1..Len(sub) : s[k + j] = sub[j]

S_PortfolioMaster == <<"P","o","r","t","f","o","l","i","o","M","a","s","t","e","r">>
S_portfoliomaster == <<"p","o","r","t","f","o","l","i","o","m","a","s","t","e","r">>
S_EquityAssetList == <<"E","q","u","i","t","y","A","s","s","e","t","L","i","s","t">>
S_equityassetlist == <<"e","q","u","i","t","y","a","s","s","e","t","l","i","s","t">>
S_FixedIncomeAssetList ==
    <<"F","i","x","e","d","I","n","c","o","m","e","A","s","s","e","t","L","i","s","t">>
S_fixedincomeassetlist ==
    <<"f","i","x","e","d","i","n","c","o","m","e","a","s","s","e","t","l","i","s","t">>
S_fixedincome == <<"f","i","x","e","d","i","n","c","o","m","e">>
S_fixed_income == <<"f","i","x","e","d"," ","i","n","c","o","m","e">>
S_Pastor == <<"P","a","s","t","o","r">>
S_pastor == <<"p","a","s","t","o","r">>
S_PASTOR == <<"P","A","S","T","O","R">>
S_Meta == <<"M","e","t","a">>
S_Policy == <<"P","o","l","i","c","y">>
S_PolicyMeta == <<"P","o","l","i","c","y","M","e","t","a">>
S_nan == <<"n","a","n">>

---------------------------------------------------------------------------
(* DataFrames *)

\* pd.DataFrame()
EmptyDF == [columns |-> <<>>, data |-> <<>>]

\* pd.DataFrame(columns=[...])
Placeholder(cols) == [columns |-> cols, data |-> <<>>]

\* col in df.columns
_exists(d, col) == col \in Range(d.columns)

ColIdx(d, col) == CHOOSE i \in 1..Len(d.columns) : d.columns[i] = col

\* df[col]: the cells of a column, in row order
Column(d, col) == [i \in 1..Len(d.data) |-> d.data[i][ColIdx(d, col)]]

\* df.shape[0]
NRows(d) == Len(d.data)

IsNull(cell) == cell = <<>>

\* a cell holding text that is no number ("TBD"), as read_excel leaves it in an
\* object column; it has two components, a number or a category has one
Unparseable == <<0, 0>>

IsText(cell) == Len(cell) = 2

\* Series.sum() of a numeric column: NaN cells are skipped
RECURSIVE SumCells(_)
SumCells(cells) ==
    IF cells = <<>> THEN 0
    ELSE (IF IsNull(Head(cells)) THEN 0 ELSE Head(cells)[1]) + SumCells(Tail(cells))

\* str(c).strip() on a column header
StripName(c) ==
    CASE c = " USD Total " -> "USD Total"
      [] c = "Rating " -> "Rating"
      [] OTHER -> c

---------------------------------------------------------------------------
(* processing/pipeline.py: Excel I/O *)

\* sheets.get(name): None or the DataFrame stored under exactly that name
SheetsGet(shs, name) ==
    IF \E i \in 1..Len(shs) : shs[i].name = name
    THEN Some(shs[CHOOSE i \in 1..Len(shs) : shs[i].name = name].df)
    ELSE None

\* one sheet as pd.read_excel returns it, or an empty DataFrame when it raises
ReadSheet(sh) ==
    IF sh.parse_ok
    THEN [columns |-> [i \in 1..Len(sh.table.columns) |-> StripName(sh.table.columns[i])],
          data |-> sh.table.data]
    ELSE EmptyDF

\* str(sheets["Meta"].iloc[0, 0]); IndexError (no column) is caught -> None
MetaValue(d) ==
    IF Len(d.columns) = 0 THEN None
    ELSE IF IsNull(d.data[1][1]) THEN Some(S_nan)
    ELSE Some(d.data[1][1][1])

\* read_workbook without the try around pd.read_excel: a sheet that fails to
\* parse ends the read
ReadWorkbookNoCatch(f) ==
    IF ~f.valid \/ \E i \in 1..Len(f.book) : ~f.book[i].parse_ok
    THEN [raised |-> TRUE, sheets |-> <<>>, meta |-> None]
    ELSE LET shs == [i \in 1..Len(f.book) |->
                        [name |-> f.book[i].name, df |-> ReadSheet(f.book[i])]]
             m == SheetsGet(shs, S_Meta)
         IN  [raised |-> FALSE,
              sheets |-> shs,
              meta |-> IF m # None /\ NRows(m[1]) > 0 THEN MetaValue(m[1]) ELSE None]

read_workbook(f) ==
    IF ~f.valid
    THEN [raised |-> TRUE, sheets |-> <<>>, meta |-> None]
    ELSE LET shs == [i \in 1..Len(f.book) |->
                        [name |-> f.book[i].name, df |-> ReadSheet(f.book[i])]]
             m == SheetsGet(shs, S_Meta)
         IN  [raised |-> FALSE,
              sheets |-> shs,
              meta |-> IF m # None /\ NRows(m[1]) > 0 THEN MetaValue(m[1]) ELSE None]

---------------------------------------------------------------------------
(* processing/pipeline.py: template detection / required sheet name *)

Kinds == {"PortfolioMaster", "EquityAssetList", "FixedIncomeAssetList"}

tmpl_options == <<"PortfolioMaster", "EquityAssetList", "FixedIncomeAssetList">>

\* detect_template_type that looks at the sheet names before the metadata
DetectNamesFirst(shs, meta_value) ==
    LET truthy == meta_value # None /\ meta_value[1] # <<>>
        s == Lower(meta_value[1])
        names_lower == {Lower(shs[i].name) : i \in 1..Len(shs)}
    IN  IF S_portfoliomaster \in names_lower \/ S_pastor \in names_lower
             THEN "PortfolioMaster"
        ELSE IF S_equityassetlist \in names_lower
             THEN "EquityAssetList"
        ELSE IF {S_fixedincomeassetlist, S_fixedincome} \cap names_lower # {}
             THEN "FixedIncomeAssetList"
        ELSE IF truthy /\ (Contains(s, S_portfoliomaster) \/ Contains(s, S_pastor))
             THEN "PortfolioMaster"
        ELSE IF truthy /\ Contains(s, S_equityassetlist)
             THEN "EquityAssetList"
        ELSE IF truthy /\ (Contains(s, S_fixedincomeassetlist) \/ Contains(s, S_fixed_income))
             THEN "FixedIncomeAssetList"
        ELSE "PortfolioMaster"

\* detect_template_type whose fallback is the last kind of the list
DetectDefaultLast(shs, meta_value) ==
    LET truthy == meta_value # None /\ meta_value[1] # <<>>
        s == Lower(meta_value[1])
        names_lower == {Lower(shs[i].name) : i \in 1..Len(shs)}
    IN  IF truthy /\ (Contains(s, S_portfoliomaster) \/ Contains(s, S_pastor))
             THEN "PortfolioMaster"
        ELSE IF truthy /\ Contains(s, S_equityassetlist)
             THEN "EquityAssetList"
        ELSE IF truthy /\ (Contains(s, S_fixedincomeassetlist) \/ Contains(s, S_fixed_income))
             THEN "FixedIncomeAssetList"
        ELSE IF S_portfoliomaster \in names_lower \/ S_pastor \in names_lower
             THEN "PortfolioMaster"
        ELSE IF S_equityassetlist \in names_lower
             THEN "EquityAssetList"
        ELSE "FixedIncomeAssetList"

detect_template_type(shs, meta_value) ==
    LET truthy == meta_value # None /\ meta_value[1] # <<>>
        s == Lower(meta_value[1])
        names_lower == {Lower(shs[i].name) : i \in 1..Len(shs)}
    IN  IF truthy /\ (Contains(s, S_portfoliomaster) \/ Contains(s, S_pastor))
             THEN "PortfolioMaster"
        ELSE IF truthy /\ Contains(s, S_equityassetlist)
             THEN "EquityAssetList"
        ELSE IF truthy /\ (Contains(s, S_fixedincomeassetlist) \/ Contains(s, S_fixed_income))
             THEN "FixedIncomeAssetList"
        ELSE IF S_portfoliomaster \in names_lower \/ S_pastor \in names_lower
             THEN "PortfolioMaster"
        ELSE IF S_equityassetlist \in names_lower
             THEN "EquityAssetList"
        ELSE IF {S_fixedincomeassetlist, S_fixedincome} \cap names_lower # {}
             THEN "FixedIncomeAssetList"
        ELSE "PortfolioMaster"

get_required_sheet_for_type(t) ==
    CASE t = "PortfolioMaster" -> S_PortfolioMaster
      [] t = "EquityAssetList" -> S_EquityAssetList
      [] t = "FixedIncomeAssetList" -> S_FixedIncomeAssetList
      [] OTHER -> S_PortfolioMaster

---------------------------------------------------------------------------
(* app.py: safe sheet fetch *)

\* the loop's test on one sheet name k
FallbackHit(k, t, name) ==
    \/ Lower(k) = Lower(name)
    \/ (t = "PortfolioMaster" /\ Lower(k) = S_pastor)

\* ResolveSheet with a fallback to the first sheet when nothing matches
ResolveSheetFirstSheet(shs, t) ==
    LET name == get_required_sheet_for_type(t)
        exact == SheetsGet(shs, name)
        hits == {i \in 1..Len(shs) : FallbackHit(shs[i].name, t, name)}
    IN  IF exact # None THEN exact
        ELSE IF hits = {} THEN (IF Len(shs) > 0 THEN Some(shs[1].df) ELSE None)
        ELSE Some(shs[CHOOSE i \in hits : \A j \in hits : i <= j].df)

\* df = sheets.get(sheet_name); if None, the first sheet in workbook order
\* that matches case-insensitively or (PortfolioMaster) is named pastor
ResolveSheet(shs, t) ==
    LET name == get_required_sheet_for_type(t)
        exact == SheetsGet(shs, name)
        hits == {i \in 1..Len(shs) : FallbackHit(shs[i].name, t, name)}
    IN  IF exact # None THEN exact
        ELSE IF hits = {} THEN None
        ELSE Some(shs[CHOOSE i \in hits : \A j \in hits : i <= j].df)

---------------------------------------------------------------------------
(* processing/pipeline.py: validation *)

PORTFOLIO_MASTER_REQUIRED == <<"Asset Class", "Sub Asset Class", "FX", "USD Total">>

EQUITY_REQUIRED == <<"Asset (Security Name)", "Market Value (USD)">>

FI_REQUIRED == <<"Rating">>

RequiredOf(t) ==
    CASE t = "PortfolioMaster" -> PORTFOLIO_MASTER_REQUIRED
      [] t = "EquityAssetList" -> EQUITY_REQUIRED
      [] t = "FixedIncomeAssetList" -> FI_REQUIRED
      [] OTHER -> <<>>

\* for c in REQUIRED: if c not in cols: errors.append(...)
RECURSIVE MissingRequired(_, _)
MissingRequired(required, cols) ==
    IF required = <<>> THEN <<>>
    ELSE (IF Head(required) \notin cols
          THEN <<[column |-> Some(Head(required)), failure |-> "missing required"]>>
          ELSE <<>>) \o MissingRequired(Tail(required), cols)

validate_df(d, t) == MissingRequired(RequiredOf(t), Range(d.columns))

---------------------------------------------------------------------------
(* Exact fractions, standing for the floats of the numeric Series *)

RECURSIVE GCD(_, _)
GCD(a, b) == IF b = 0 THEN a ELSE GCD(b, a % b)

\* the fraction n/d in lowest terms, d > 0
Q(n, d) ==
    LET g == GCD(Abs(n), Abs(d))
        sgn == IF d < 0 THEN -1 ELSE 1
    IN  [n |-> (sgn * n) \div g, d |-> Abs(d) \div g]

QInt(v) == [n |-> v, d |-> 1]

QAdd(a, b) == Q(a.n * b.d + b.n * a.d, a.d * b.d)

QSub(a, b) == Q(a.n * b.d - b.n * a.d, a.d * b.d)

QMul(a, b) == Q(a.n * b.n, a.d * b.d)

\* a / b, b nonzero
QDiv(a, b) == Q(a.n * b.d, a.d * b.n)

QLess(a, b) == a.n * b.d < b.n * a.d

QLeq(a, b) == a.n * b.d <= b.n * a.d

QAbs(a) == [n |-> Abs(a.n), d |-> a.d]

QZero == QInt(0)

\* 100.0
Hundred == 400

\* Series.sum(): NaN entries are skipped
RECURSIVE QSum(_)
QSum(series) ==
    IF series = <<>> THEN QZero
    ELSE QAdd(IF IsNull(Head(series)) THEN QZero ELSE Head(series)[1], QSum(Tail(series)))

\* _num(s): pd.to_numeric(s, errors="coerce").fillna(nan); text becomes NaN
_num(cells) ==
    [i \in 1..Len(cells) |->
        IF IsNull(cells[i]) \/ IsText(cells[i]) THEN None ELSE Some(QInt(cells[i][1]))]

\* pd.Series(0.0, index=df.index)
ZeroSeries(d) == [i \in 1..NRows(d) |-> Some(QZero)]

\* Normalized without the factor 100.0
NormalizedNoScale(series, total) ==
    [i \in 1..Len(series) |->
        IF IsNull(series[i]) THEN None ELSE Some(QDiv(series[i][1], total))]

\* series / total * 100.0
Normalized(series, total) ==
    [i \in 1..Len(series) |->
        IF IsNull(series[i]) THEN None
        ELSE Some(QMul(QDiv(series[i][1], total), QInt(Hundred)))]

---------------------------------------------------------------------------
(* Sorting and grouping *)

\* sort_values(ascending=False): does entry j come before entry i ?
\* larger values first, NaN last; equal values are taken in their original
\* order here, which is one of the orders the default kind="quicksort" may
\* give them (SortOrders has them all)
Precedes(keys, j, i) ==
    \/ (~IsNull(keys[j]) /\ IsNull(keys[i]))
    \/ (~IsNull(keys[j]) /\ ~IsNull(keys[i]) /\ QLess(keys[i][1], keys[j][1]))
    \/ (j < i /\ (IsNull(keys[j]) <=> IsNull(keys[i]))
              /\ (IsNull(keys[j]) \/ keys[j][1] = keys[i][1]))

\* the row positions in sorted order
SortIdxDesc(keys) ==
    LET n == Len(keys)
        rank(i) == Cardinality({j \in 1..n : j # i /\ Precedes(keys, j, i)})
    IN  [k \in 1..n |-> CHOOSE i \in 1..n : rank(i) = k - 1]

\* frame.sort_values(col, ascending=False).reset_index(drop=True)
SortFrameDesc(fr, col) ==
    LET idx == SortIdxDesc(Column(fr, col))
    IN  [columns |-> fr.columns, data |-> [k \in 1..Len(idx) |-> fr.data[idx[k]]]]

\* frame.head(n)
HeadRows(fr, n) ==
    [columns |-> fr.columns,
     data |-> IF Len(fr.data) <= n THEN fr.data ELSE SubSeq(fr.data, 1, n)]

\* a finite set of integers as an ascending sequence
RECURSIVE SortedSeq(_)
SortedSeq(S) ==
    IF S = {} THEN <<>>
    ELSE LET m == CHOOSE x \in S : \A y \in S : x <= y
         IN  <<m>> \o SortedSeq(S \ {m})

\* the group keys of groupby(by, dropna=...): ascending, the NaN group last
GroupKeys(keys, dropna) ==
    LET present == {keys[i][1] : i \in {j \in 1..Len(keys) : ~IsNull(keys[j])}}
        sorted == SortedSeq(present)
        hasNull == \E i \in 1..Len(keys) : IsNull(keys[i])
    IN  [k \in 1..Len(sorted) |-> Some(sorted[k])]
        \o (IF hasNull /\ ~dropna THEN <<None>> ELSE <<>>)

\* the values of the rows whose key is k
GroupValues(keys, vals, k) ==
    LET pos == SortedSeq({i \in 1..Len(keys) : keys[i] = k})
    IN  [j \in 1..Len(pos) |-> vals[pos[j]]]

\* df.groupby(by, dropna=..., as_index=False)[val].sum(), named [by, out]
GroupSum(d, by, vals, out, dropna) ==
    LET keys == Column(d, by)
        gk == GroupKeys(keys, dropna)
    IN  [columns |-> <<by, out>>,
         data |-> [g \in 1..Len(gk) |->
                      <<gk[g], Some(QSum(GroupValues(keys, vals, gk[g])))>>]]

\* df with one more column
AddColumn(d, name, series) ==
    [columns |-> Append(d.columns, name),
     data |-> [i \in 1..NRows(d) |-> Append(d.data[i], series[i])]]

\* df[cols]
SelectColumns(d, cols) ==
    [columns |-> cols,
     data |-> [i \in 1..NRows(d) |->
                  [c \in 1..Len(cols) |-> d.data[i][ColIdx(d, cols[c])]]]]

\* the outcome of a step that may raise
Raised == [raised |-> TRUE, value |-> None]

Returned(v) == [raised |-> FALSE, value |-> Some(v)]

---------------------------------------------------------------------------
(* processing/pipeline.py: helpers of the transform *)

\* 0.25, the tolerance of _coalesce_weight
RecomputeTol == 1

\* _coalesce_weight without the recomputation from USD Total
CoalesceNoRecompute(d) ==
    LET w == _num(Column(d, "Weight %"))
        usd == _num(Column(d, "USD Total"))
    IN  IF _exists(d, "Weight %") THEN w
        ELSE IF _exists(d, "USD Total") /\ QLess(QZero, QSum(usd))
             THEN Normalized(usd, QSum(usd))
             ELSE ZeroSeries(d)

_coalesce_weight(d) ==
    LET w == _num(Column(d, "Weight %"))
        usd == _num(Column(d, "USD Total"))
        off == QLess(QInt(RecomputeTol), QAbs(QSub(QSum(w), QInt(Hundred))))
    IN  IF _exists(d, "Weight %")
        THEN IF _exists(d, "USD Total") /\ QLess(QZero, QSum(usd)) /\ off
             THEN Normalized(usd, QSum(usd))
             ELSE w
        ELSE IF _exists(d, "USD Total") /\ QLess(QZero, QSum(usd))
             THEN Normalized(usd, QSum(usd))
             ELSE ZeroSeries(d)

\* frame.rename(columns={old: new})
Rename(fr, old, new) ==
    [columns |-> [i \in 1..Len(fr.columns) |->
                     IF fr.columns[i] = old THEN new ELSE fr.columns[i]],
     data |-> fr.data]

\* groupby(by) on a frame without the column by raises KeyError
_safe_group_sum(d, by, val) ==
    IF ~_exists(d, val) THEN Returned(Placeholder(<<by, val>>))
    ELSE IF ~_exists(d, by) THEN Raised
    ELSE Returned(SortFrameDesc(GroupSum(d, by, Column(d, val), val, FALSE), val))

\* _safe_group_sum(work, by, "__usd").rename(columns={"__usd": "USD Total"})
UsdGroup(work, by) ==
    LET g == _safe_group_sum(work, by, "__usd")
    IN  IF g.raised THEN Raised ELSE Returned(Rename(g.value[1], "__usd", "USD Total"))

\* work.groupby(by, as_index=False)[val].sum().rename(columns={val: out});
\* the default dropna=True leaves the rows with a NaN key out
\* (vals: the numbers of column val); a missing column raises KeyError
PlainGroup(work, by, val, vals, out) ==
    IF ~_exists(work, by) \/ ~_exists(work, val) THEN Raised
    ELSE Returned(GroupSum(work, by, vals, out, TRUE))

\* work.groupby(by, as_index=False)[val].sum() on a column as read from the
\* sheet, named [by, out].  A column with a text cell has dtype object and is
\* summed with +: a group of numbers and text raises TypeError, a group whose
\* values are all text gives text (the strings concatenated), NaN is skipped.
ObjectGroupSum(d, by, val, out) ==
    LET keys == Column(d, by)
        raw == Column(d, val)
        gk == GroupKeys(keys, TRUE)
        texts(k) == {i \in 1..Len(keys) : keys[i] = k /\ IsText(raw[i])}
        nums(k) == {i \in 1..Len(keys) : keys[i] = k /\ ~IsNull(raw[i]) /\ ~IsText(raw[i])}
    IN  IF ~_exists(d, by) \/ ~_exists(d, val) THEN Raised
        ELSE IF \E g \in 1..Len(gk) : texts(gk[g]) # {} /\ nums(gk[g]) # {} THEN Raised
        ELSE Returned(
               [columns |-> <<by, out>>,
                data |-> [g \in 1..Len(gk) |->
                             <<gk[g],
                               IF texts(gk[g]) # {} THEN Unparseable
                               ELSE Some(QSum(GroupValues(keys, _num(raw), gk[g])))>>]])

---------------------------------------------------------------------------
(* processing/pipeline.py: _read_policy *)

\* p.groupby("Asset Class", as_index=False)["Policy Weight %"].sum()
PolicyFrame(shs) ==
    LET p == SheetsGet(shs, S_Policy)
    IN  IF p # None /\ {"Asset Class", "Policy Weight %"} \subseteq Range(p[1].columns)
        THEN Some(GroupSum(p[1], "Asset Class", _num(Column(p[1], "Policy Weight %")),
                           "Policy Weight %", TRUE))
        ELSE None

\* dict(zip(first column, second column)).get(key, nan) as a number;
\* a key given twice keeps its last value
PolicyMetaGet(shs, key) ==
    LET pm == SheetsGet(shs, S_PolicyMeta)
        hits == {i \in 1..NRows(pm[1]) : pm[1].data[i][1] = Some(key)}
        last == CHOOSE i \in hits : \A j \in hits : j <= i
    IN  IF pm # None /\ Len(pm[1].columns) >= 2 /\ hits # {}
        THEN _num(<<pm[1].data[last][2]>>)[1]
        ELSE None

_read_policy(shs) ==
    [policy |-> PolicyFrame(shs),
     esg_bmk |-> PolicyMetaGet(shs, "ESG_Benchmark_Score"),
     carb_bmk |-> PolicyMetaGet(shs, "Carbon_Benchmark_Intensity")]

---------------------------------------------------------------------------
(* processing/pipeline.py: transform_results, PortfolioMaster *)

\* head(10) of the top-10 concentration
Top10 == 10

\* head(15) of top_assets
TopAssetsN == 15

\* a * b, elementwise; NaN where either is NaN
MulSeries(a, b) ==
    [i \in 1..Len(a) |->
        IF IsNull(a[i]) \/ IsNull(b[i]) THEN None ELSE Some(QMul(a[i][1], b[i][1]))]

\* series / scalar, scalar nonzero
DivSeries(a, q) ==
    [i \in 1..Len(a) |-> IF IsNull(a[i]) THEN None ELSE Some(QDiv(a[i][1], q))]

\* pd.Series(np.nan, index=work.index)
NanSeries(d) == [i \in 1..NRows(d) |-> None]

\* the numbers of a column, or the given default Series when it is absent
NumOr(d, col, default) == IF _exists(d, col) THEN _num(Column(d, col)) ELSE default

\* PolicyCompare with how="inner": the asset classes on both sides only
PolicyCompareInner(by_ac, policy) ==
    LET akeys == Column(by_ac, "Asset Class")
        usd == Column(by_ac, "USD Total")
        total == QSum(usd)
        pkeys == Column(policy, "Asset Class")
        pw == Column(policy, "Policy Weight %")
        both == GroupKeys(SelectSeq(akeys, LAMBDA k : k \in Range(pkeys)), FALSE)
    IN  [columns |-> <<"Asset Class", "Actual %", "Policy Weight %">>,
         data |-> [g \in 1..Len(both) |->
                      <<both[g],
                        IF total = QZero THEN Some(QZero)
                        ELSE Some(QMul(QDiv(usd[CHOOSE j \in 1..Len(akeys) :
                                                   akeys[j] = both[g]][1], total),
                                       QInt(Hundred))),
                        pw[CHOOSE j \in 1..Len(pkeys) : pkeys[j] = both[g]]>>]]

\* actual.merge(policy, on="Asset Class", how="outer").fillna(0.0)
\*   [["Asset Class", "Actual %", "Policy Weight %"]]
\* Input amounts are non-negative, so a zero total makes every Actual % 0/0 = NaN.
PolicyCompare(by_ac, policy) ==
    LET akeys == Column(by_ac, "Asset Class")
        usd == Column(by_ac, "USD Total")
        total == QSum(usd)
        pkeys == Column(policy, "Asset Class")
        pw == Column(policy, "Policy Weight %")
        allKeys == GroupKeys(akeys \o pkeys, FALSE)
        actualOf(k) ==
            IF \E i \in 1..Len(akeys) : akeys[i] = k
            THEN LET i == CHOOSE j \in 1..Len(akeys) : akeys[j] = k
                 IN  IF total = QZero THEN Some(QZero)
                     ELSE Some(QMul(QDiv(usd[i][1], total), QInt(Hundred)))
            ELSE Some(QZero)
        policyOf(k) ==
            IF \E i \in 1..Len(pkeys) : pkeys[i] = k
            THEN pw[CHOOSE j \in 1..Len(pkeys) : pkeys[j] = k]
            ELSE Some(QZero)
    IN  [columns |-> <<"Asset Class", "Actual %", "Policy Weight %">>,
         data |-> [g \in 1..Len(allKeys) |->
                      <<IF IsNull(allKeys[g]) THEN Some(0) ELSE allKeys[g],
                        actualOf(allKeys[g]), policyOf(allKeys[g])>>]]

\* by_country: ISO3 preferred, then Country, else the placeholder
ByCountry(work) ==
    IF _exists(work, "Country ISO3")
    THEN PlainGroup(work, "Country ISO3", "__usd", Column(work, "__usd"), "USD Total")
    ELSE IF _exists(work, "Country")
    THEN PlainGroup(work, "Country", "__usd", Column(work, "__usd"), "USD Total")
    ELSE Returned(Placeholder(<<"Country ISO3", "USD Total">>))

transform_PortfolioMaster(d, shs) ==
    LET usd == NumOr(d, "USD Total", ZeroSeries(d))
        w == _coalesce_weight(d)
        work == AddColumn(AddColumn(d, "__usd", usd), "__w", w)
        w_sorted == Column(SortFrameDesc(work, "__w"), "__w")
        by_asset_class == UsdGroup(work, "Asset Class")
        by_sub_asset == UsdGroup(work, "Sub Asset Class")
        by_fx == UsdGroup(work, "FX")
        by_liquidity == UsdGroup(work, "Liquidity")
        by_country == ByCountry(work)
        pol == _read_policy(shs)
        ter == NumOr(d, "TER %", ZeroSeries(d))
        exp_ret == NumOr(d, "Exp Return % (annual)", NanSeries(d))
        gross == QSum(DivSeries(MulSeries(exp_ret, w), QInt(Hundred)))
        ter_w == QSum(DivSeries(MulSeries(ter, w), QInt(Hundred)))
        esg == NumOr(d, "ESG Score", NanSeries(d))
        carb == NumOr(d, "Carbon Intensity", NanSeries(d))
        w_norm == IF QSum(w) # QZero THEN DivSeries(w, QSum(w)) ELSE w
    IN  IF \/ by_asset_class.raised \/ by_sub_asset.raised \/ by_fx.raised
           \/ by_liquidity.raised \/ by_country.raised
        THEN Raised
        ELSE Returned(
          [metrics |-> [n_rows |-> NRows(d),
                        usd_total_sum |-> QSum(usd),
                        w_sum |-> QSum(w),
                        top10_concentration |->
                            QSum(IF Len(w_sorted) <= Top10 THEN w_sorted
                                 ELSE SubSeq(w_sorted, 1, Top10))],
           by_asset_class |-> by_asset_class.value[1],
           by_sub_asset |-> by_sub_asset.value[1],
           by_fx |-> by_fx.value[1],
           by_liquidity |-> by_liquidity.value[1],
           by_country |-> by_country.value[1],
           policy |-> pol.policy,
           policy_compare |->
               IF pol.policy # None /\ NRows(by_asset_class.value[1]) > 0
               THEN Some(PolicyCompare(by_asset_class.value[1], pol.policy[1]))
               ELSE None,
           fees_returns |-> [gross |-> gross, ter_w |-> ter_w, net |-> QSub(gross, ter_w)],
           esg |-> [portfolio_esg |-> QSum(MulSeries(esg, w_norm)),
                    benchmark_esg |-> pol.esg_bmk,
                    portfolio_carbon |-> QSum(MulSeries(carb, w_norm)),
                    benchmark_carbon |-> pol.carb_bmk],
           top_assets |-> HeadRows(SelectColumns(SortFrameDesc(work, "__usd"), d.columns),
                                   TopAssetsN)])

---------------------------------------------------------------------------
(* processing/pipeline.py: transform_results, EquityAssetList and          *)
(* FixedIncomeAssetList                                                    *)

\* head(25) of top_positions
TopPositionsN == 25

\* mv: Market Value (USD), else USD Total, else zeros
MarketValue(d) ==
    IF _exists(d, "Market Value (USD)") THEN _num(Column(d, "Market Value (USD)"))
    ELSE IF _exists(d, "USD Total") THEN _num(Column(d, "USD Total"))
    ELSE ZeroSeries(d)

\* w: Weight %, else mv normalized to 100 when mv.sum() is nonzero, else zeros
ListWeight(d, mv) ==
    IF _exists(d, "Weight %") THEN _num(Column(d, "Weight %"))
    ELSE IF QSum(mv) # QZero THEN Normalized(mv, QSum(mv))
    ELSE ZeroSeries(d)

\* by_sector / by_region.  Without a Weight % column the named aggregation is
\* given a bare lambda, which DataFrameGroupBy.agg rejects with TypeError.
\* With it, the sums are NaN-free, so .isna().all() is true only of a frame
\* without groups, and then the Market Value (USD) grouping replaces it.
EquityGroup(d, by) ==
    IF ~_exists(d, by) THEN Returned(Placeholder(<<by, "Weight %">>))
    ELSE IF ~_exists(d, "Weight %") THEN Raised
    ELSE LET g == ObjectGroupSum(d, by, "Weight %", "Weight %")
         IN  IF g.raised THEN Raised
             ELSE IF NRows(g.value[1]) = 0
             THEN ObjectGroupSum(d, by, "Market Value (USD)", "Weight %")
             ELSE g

transform_EquityAssetList(d) ==
    LET mv == MarketValue(d)
        w == ListWeight(d, mv)
        by_sector == EquityGroup(d, "Sector (GICS)")
        by_region == EquityGroup(d, "Region")
        top == AddColumn(d, "__mv", mv)
    IN  IF \/ by_sector.raised \/ by_region.raised
           \/ (~_exists(d, "Asset (Security Name)") /\ Len(d.columns) = 0)
        THEN Raised
        ELSE Returned(
          [metrics |-> [n_rows |-> NRows(d), mv_sum |-> QSum(mv), w_sum |-> QSum(w)],
           by_sector |-> by_sector.value[1],
           by_region |-> by_region.value[1],
           top_positions |-> HeadRows(SelectColumns(SortFrameDesc(top, "__mv"), d.columns),
                                      TopPositionsN)])

\* bins=[-inf, 1, 3, 5, 7, 10, inf], in quarters
BinEdges == <<4, 12, 20, 28, 40>>

MaturityLabels == <<"0-1y", "1-3y", "3-5y", "5-7y", "7-10y", "10y+">>

DurationLabels == <<"0-1", "1-3", "3-5", "5-7", "7-10", "10+">>

\* pd.cut(x, bins): the position of the interval (lo, hi] that holds x
CutIndex(x) ==
    LET below == {k \in 1..Len(BinEdges) : QLeq(x, QInt(BinEdges[k]))}
    IN  IF below = {} THEN Len(BinEdges) + 1
        ELSE CHOOSE k \in below : \A j \in below : k <= j

\* Cut with NaN put in the first interval
CutNanFirst(series, labels) ==
    [i \in 1..Len(series) |->
        IF IsNull(series[i]) THEN Some(labels[1]) ELSE Some(labels[CutIndex(series[i][1])])]

\* pd.cut(series, bins, labels): NaN stays NaN
Cut(series, labels) ==
    [i \in 1..Len(series) |->
        IF IsNull(series[i]) THEN None ELSE Some(labels[CutIndex(series[i][1])])]

\* pd.DataFrame({"Bucket": buckets, "W": w}).groupby("Bucket", as_index=False)["W"]
\*   .sum().rename(columns={"W": "Weight %"}): one row per category
BucketFrame(buckets, w, labels) ==
    [columns |-> <<"Bucket", "Weight %">>,
     data |-> [k \in 1..Len(labels) |->
                  <<Some(labels[k]), Some(QSum(GroupValues(buckets, w, Some(labels[k]))))>>]]

\* the maturity column in use, or None
mat_col(d) ==
    IF _exists(d, "Years to Maturity") THEN Some("Years to Maturity")
    ELSE IF _exists(d, "Maturity (Years)") THEN Some("Maturity (Years)")
    ELSE None

\* the duration column in use, or None
dur_col(d) ==
    IF _exists(d, "Mod Duration") THEN Some("Mod Duration")
    ELSE IF _exists(d, "Duration") THEN Some("Duration")
    ELSE None

Buckets(d, col, w, labels) ==
    IF col # None
    THEN BucketFrame(Cut(_num(Column(d, col[1])), labels), w, labels)
    ELSE Placeholder(<<"Bucket", "Weight %">>)

\* by_rating: Weight % summed per rating, else Market Value (USD) per rating
\* (KeyError when that column is absent too), sorted descending; sorting text
\* with numbers raises TypeError, text alone (one value) keeps its order
ByRating(d) ==
    IF ~_exists(d, "Rating") THEN Returned(Placeholder(<<"Rating", "Weight %">>))
    ELSE LET by_r == IF _exists(d, "Weight %")
                     THEN ObjectGroupSum(d, "Rating", "Weight %", "Weight %")
                     ELSE ObjectGroupSum(d, "Rating", "Market Value (USD)", "Weight %")
             sums == Column(by_r.value[1], "Weight %")
             text == {g \in 1..Len(sums) : IsText(sums[g])}
         IN  IF by_r.raised THEN Raised
             ELSE IF text = {} THEN Returned(SortFrameDesc(by_r.value[1], "Weight %"))
             ELSE IF text = 1..Len(sums) THEN by_r
             ELSE Raised

transform_FixedIncomeAssetList(d) ==
    LET mv == MarketValue(d)
        w == ListWeight(d, mv)
        by_rating == ByRating(d)
    IN  IF by_rating.raised THEN Raised
        ELSE Returned(
          [metrics |-> [n_rows |-> NRows(d), mv_sum |-> QSum(mv), w_sum |-> QSum(w)],
           by_rating |-> by_rating.value[1],
           maturity_buckets |-> Buckets(d, mat_col(d), w, MaturityLabels),
           duration_buckets |-> Buckets(d, dur_col(d), w, DurationLabels)])

transform_results(d, t, shs) ==
    CASE t = "PortfolioMaster" -> transform_PortfolioMaster(d, shs)
      [] t = "EquityAssetList" -> transform_EquityAssetList(d)
      [] t = "FixedIncomeAssetList" -> transform_FixedIncomeAssetList(d)
      [] OTHER -> Returned([metrics |-> <<>>])

---------------------------------------------------------------------------
(* sort_values(..., ascending=False) with the default kind="quicksort":     *)
(* the sort is not stable, rows with equal values come out in any order     *)

\* entry j is larger than entry i (NaN is smaller than every number)
Larger(keys, j, i) ==
    \/ (~IsNull(keys[j]) /\ IsNull(keys[i]))
    \/ (~IsNull(keys[j]) /\ ~IsNull(keys[i]) /\ QLess(keys[i][1], keys[j][1]))

\* the descending orders of the entries S, largest first
RECURSIVE OrdersOf(_, _)
OrdersOf(keys, S) ==
    IF S = {} THEN {<<>>}
    ELSE LET top == {i \in S : \A j \in S : ~Larger(keys, j, i)}
         IN  UNION {{<<i>> \o o : o \in OrdersOf(keys, S \ {i})} : i \in top}

\* the row orders sort_values may return
SortOrders(keys) == OrdersOf(keys, 1..Len(keys))

\* the rows of a frame in the order idx
Reorder(fr, idx) ==
    [columns |-> fr.columns, data |-> [k \in 1..Len(idx) |-> fr.data[idx[k]]]]

\* the sort keys of a sorted group table; text cells are one value
SortKeys(fr, col) ==
    [g \in 1..NRows(fr) |->
        IF IsText(Column(fr, col)[g]) THEN Some(QZero) ELSE Column(fr, col)[g]]

\* the outcomes of sorting a group table whose stable outcome is fr
Reorderings(fr, col) == {Reorder(fr, idx) : idx \in SortOrders(SortKeys(fr, col))}

\* work.sort_values(key, ascending=False)[cols].head(n).reset_index(drop=True)
TopOutcomes(d, keys, n) == {HeadRows(Reorder(d, idx), n) : idx \in SortOrders(keys)}

\* the outcomes that differ from the stable outcome r in the order of equal
\* values in a sorted table, and r itself
OutcomesLike(d, t, r) ==
    LET b == r.value[1]
    IN  IF r.raised THEN {Raised}
        ELSE CASE t = "PortfolioMaster" ->
                    {Returned([b EXCEPT !.by_asset_class = a, !.by_sub_asset = sa,
                                        !.by_fx = fx, !.by_liquidity = lq,
                                        !.top_assets = ta]) :
                        a \in Reorderings(b.by_asset_class, "USD Total"),
                        sa \in Reorderings(b.by_sub_asset, "USD Total"),
                        fx \in Reorderings(b.by_fx, "USD Total"),
                        lq \in Reorderings(b.by_liquidity, "USD Total"),
                        ta \in TopOutcomes(d, NumOr(d, "USD Total", ZeroSeries(d)),
                                           TopAssetsN)}
               [] t = "EquityAssetList" ->
                    {Returned([b EXCEPT !.top_positions = tp]) :
                        tp \in TopOutcomes(d, MarketValue(d), TopPositionsN)}
               [] t = "FixedIncomeAssetList" ->
                    {Returned([b EXCEPT !.by_rating = br]) :
                        br \in Reorderings(b.by_rating, "Weight %")}
               [] OTHER -> {r}

\* the outcomes of transform_results(d, t, shs)
transform_outcomes(d, t, shs) ==
    UNION {OutcomesLike(d, t, r) : r \in {transform_results(d, t, shs)}}

---------------------------------------------------------------------------
(* processing/schema.py: business_rules *)

\* 0.5, the tolerance of the Weight % rule
WeightTol == 2

\* df["Weight %"].fillna(0).sum()
WeightSum(d) == SumCells(Column(d, "Weight %"))

\* (df["Maturity Date"] >= df["Issue Date"]).fillna(True).all(): a comparison
\* with NaT is False, not missing, so fillna(True) changes nothing
DatesOk(d) ==
    LET mat == Column(d, "Maturity Date")
        iss == Column(d, "Issue Date")
    IN  \A i \in 1..NRows(d) :
            ~IsNull(mat[i]) /\ ~IsNull(iss[i]) /\ mat[i][1] >= iss[i][1]

\* the list of (ok, message) pairs
business_rules(d, t) ==
    (IF t \in {"EquityAssetList", "FixedIncomeAssetList"} /\ _exists(d, "Weight %")
     THEN <<[ok |-> Abs(WeightSum(d) - Hundred) <= WeightTol,
             message |-> "Weight % does not sum to ~100% (+-0.5)."]>>
     ELSE <<>>)
    \o
    (IF t = "FixedIncomeAssetList" /\ _exists(d, "Maturity Date") /\ _exists(d, "Issue Date")
     THEN <<[ok |-> DatesOk(d),
             message |-> "Some bonds have Maturity Date earlier than Issue Date."]>>
     ELSE <<>>)

---------------------------------------------------------------------------
(* processing/reporting.py: build_report_xlsx *)

\* results.get("template_type")
ReportKind(res) ==
    IF "template_type" \in DOMAIN res THEN Some(res.template_type) ELSE None

\* the `if key in results` tests, one worksheet each
KindSheets(res, keys, names) ==
    LET present == {i \in 1..Len(keys) : keys[i] \in DOMAIN res}
        idx == SortedSeq(present)
    IN  [k \in 1..Len(idx) |-> names[idx[k]]]

\* the worksheets of the workbook written
build_report_xlsx(res) ==
    LET t == ReportKind(res)
    IN  <<"Summary">>
        \o (IF t = Some("PortfolioMaster")
            THEN KindSheets(res, <<"by_asset_class", "by_sub_asset", "by_fx", "top_assets">>,
                            <<"ByAssetClass", "BySubAsset", "Currency", "TopAssets">>)
            ELSE <<>>)
        \o (IF t = Some("EquityAssetList")
            THEN KindSheets(res, <<"by_sector", "by_region", "top_positions">>,
                            <<"BySector", "ByRegion", "TopPositions">>)
            ELSE <<>>)
        \o (IF t = Some("FixedIncomeAssetList")
            THEN KindSheets(res, <<"by_rating", "maturity_buckets", "duration_buckets">>,
                            <<"ByRating", "Maturity", "Duration">>)
            ELSE <<>>)

---------------------------------------------------------------------------
(* processing/pdf_report.py: build_pdf_report *)

\* the "Template Type" row of the cover table and the kind whose sections
\* the document gets
build_pdf_report(template_type, res) == [template_type |-> template_type]

---------------------------------------------------------------------------
(* The uploaded documents of the pipeline runs *)

\* a cell of a text or categorical column
Txt == Some(1)

\* a header row only
HeaderOnly == [columns |-> PORTFOLIO_MASTER_REQUIRED, data |-> <<>>]

\* every column the three kinds read, one row; two headers carry padding
WideTable ==
    [columns |-> <<"Asset Class", "Sub Asset Class", "FX", " USD Total ", "Liquidity",
                   "Asset (Security Name)", "Market Value (USD)", "Weight %",
                   "Sector (GICS)", "Region", "Rating ", "Mod Duration">>,
     data |-> << <<Txt, Txt, Txt, Some(2400), Txt,
                   Txt, Some(2400), Some(400),
                   Txt, Txt, Txt, Some(12)>> >>]

\* the required columns of the three kinds and nothing optional but a sector
CoreTable ==
    [columns |-> <<"Asset Class", "Sub Asset Class", "FX", "USD Total",
                   "Asset (Security Name)", "Market Value (USD)", "Sector (GICS)",
                   "Rating">>,
     data |-> << <<Txt, Txt, Txt, Some(2400), Txt, Some(2400), Txt, Txt>> >>]

\* a sheet of something else
NotesTable == [columns |-> <<"Notes">>, data |-> << <<Txt>> >>]

SampleTables == {HeaderOnly, WideTable, CoreTable, NotesTable}

\* a Meta sheet whose first cell is the string m
MetaTable(m) == [columns |-> <<"Meta">>, data |-> << <<Some(m)>> >>]

MetaStrings == {<<"v","2"," ">> \o S_Pastor, <<"x">> \o S_EquityAssetList, <<"F","i","x","e","d"," ","I","n","c","o","m","e">>}

MetaTables == {MetaTable(m) : m \in MetaStrings} \cup {HeaderOnly}

DataSheetNames ==
    {S_PortfolioMaster, S_portfoliomaster, S_Pastor, S_PASTOR, S_EquityAssetList,
     S_FixedIncomeAssetList}

\* a sheet of the document: its name, whether read_excel parses it, its content
SheetChoices ==
    {[name |-> n, parse_ok |-> TRUE, table |-> t] : n \in DataSheetNames, t \in SampleTables}
    \cup {[name |-> n, parse_ok |-> FALSE, table |-> EmptyDF] : n \in DataSheetNames \cup {S_Meta}}
    \cup {[name |-> S_Meta, parse_ok |-> TRUE, table |-> t] : t \in MetaTables}

\* sheet names are unique within a workbook
Books ==
    {b \in SeqsOf(SheetChoices, 0, MaxSheets) :
        \A i, j \in 1..Len(b) : i # j => b[i].name # b[j].name}

Uploads ==
    {[valid |-> FALSE, book |-> <<>>]} \cup {[valid |-> TRUE, book |-> b] : b \in Books}

NoFile == [valid |-> FALSE, book |-> <<>>]

---------------------------------------------------------------------------
(* app.py: the script, one action per step *)

Init ==
    /\ file \in Uploads
    /\ pc = "read"
    /\ sheets = <<>>
    /\ meta_str = None
    /\ detected_type = None
    /\ tmpl_type = None
    /\ sheet_name = None
    /\ df = None
    /\ errors = None
    /\ rules = None
    /\ results = None
    /\ report = None
    /\ notice = None
    /\ calls = <<>>

\* lines 60-65: read_workbook, or "Template read failed" and st.stop()
ReadWorkbook ==
    /\ pc = "read"
    /\ LET r == read_workbook(file)
       IN  IF r.raised
           THEN /\ notice' = Some([level |-> "error", what |-> "read failed", arg |-> None])
                /\ pc' = "stopped"
                /\ UNCHANGED <<sheets, meta_str>>
           ELSE /\ sheets' = r.sheets
                /\ meta_str' = r.meta
                /\ pc' = "detect"
                /\ UNCHANGED notice
    /\ calls' = Append(calls, "read_workbook")
    /\ UNCHANGED <<file, detected_type, tmpl_type, sheet_name, df, errors, rules,
                   results, report>>

\* lines 67-72: detection, then the selectbox, preset to the detected kind
DetectAndSelect ==
    /\ pc = "detect"
    /\ detected_type' = Some(detect_template_type(sheets, meta_str))
    /\ \E k \in 1..Len(tmpl_options) : tmpl_type' = Some(tmpl_options[k])
    /\ pc' = "fetch"
    /\ calls' = Append(calls, "detect_template_type")
    /\ UNCHANGED <<file, sheets, meta_str, sheet_name, df, errors, rules, results,
                   report, notice>>

\* lines 74-86: safe sheet fetch
FetchSheet ==
    /\ pc = "fetch"
    /\ sheet_name' = Some(get_required_sheet_for_type(tmpl_type[1]))
    /\ df' = ResolveSheet(sheets, tmpl_type[1])
    /\ pc' = "check"
    /\ UNCHANGED <<file, sheets, meta_str, detected_type, tmpl_type, errors, rules,
                   results, report, notice, calls>>

\* CheckSheet without the test of df.shape[0]
CheckSheetNoEmptyTest ==
    /\ pc = "check"
    /\ IF df = None
       THEN /\ notice' = Some([level |-> "error", what |-> "missing sheet",
                               arg |-> sheet_name])
            /\ pc' = "stopped"
       ELSE /\ pc' = "validate"
            /\ UNCHANGED notice
    /\ UNCHANGED <<file, sheets, meta_str, detected_type, tmpl_type, sheet_name, df,
                   errors, rules, results, report, calls>>

\* lines 88-97: missing sheet -> st.error, empty sheet -> st.warning, st.stop()
CheckSheet ==
    /\ pc = "check"
    /\ IF df = None
       THEN /\ notice' = Some([level |-> "error", what |-> "missing sheet",
                               arg |-> sheet_name])
            /\ pc' = "stopped"
       ELSE IF NRows(df[1]) = 0
       THEN /\ notice' = Some([level |-> "warning", what |-> "empty sheet",
                               arg |-> sheet_name])
            /\ pc' = "stopped"
       ELSE /\ pc' = "validate"
            /\ UNCHANGED notice
    /\ UNCHANGED <<file, sheets, meta_str, detected_type, tmpl_type, sheet_name, df,
                   errors, rules, results, report, calls>>

\* lines 99-111: validate_df and the display of its result
Validate ==
    /\ pc = "validate"
    /\ errors' = Some(validate_df(df[1], tmpl_type[1]))
    /\ notice' = IF errors'[1] # <<>>
                 THEN Some([level |-> "error", what |-> "validation issues",
                            arg |-> Some(Len(errors'[1]))])
                 ELSE Some([level |-> "success", what |-> "validation passed",
                            arg |-> None])
    /\ pc' = "gate"
    /\ calls' = Append(calls, "validate_df")
    /\ UNCHANGED <<file, sheets, meta_str, detected_type, tmpl_type, sheet_name, df,
                   rules, results, report>>

\* Gate without the st.stop()
GateNoStop ==
    /\ pc = "gate"
    /\ pc' = "transform"
    /\ UNCHANGED <<file, sheets, meta_str, detected_type, tmpl_type, sheet_name, df,
                   errors, rules, results, report, notice, calls>>

\* lines 113-114: if errors: st.stop()
Gate ==
    /\ pc = "gate"
    /\ pc' = IF errors[1] # <<>> THEN "stopped" ELSE "transform"
    /\ UNCHANGED <<file, sheets, meta_str, detected_type, tmpl_type, sheet_name, df,
                   errors, rules, results, report, notice, calls>>

\* line 118: transform_results; an exception it raises ends the script
Transform ==
    /\ pc = "transform"
    /\ \E r \in transform_outcomes(df[1], tmpl_type[1], sheets) :
           IF r.raised
           THEN /\ pc' = "crashed"
                /\ UNCHANGED results
           ELSE /\ results' = r.value
                /\ pc' = "export"
    /\ calls' = Append(calls, "transform_results")
    /\ UNCHANGED <<file, sheets, meta_str, detected_type, tmpl_type, sheet_name, df,
                   errors, rules, report, notice>>

\* lines 366-376: the exports
Export ==
    /\ pc = "export"
    /\ report' = Some([xlsx |-> build_report_xlsx(results[1]),
                        pdf |-> build_pdf_report(tmpl_type[1], results[1])])
    /\ pc' = "done"
    /\ calls' = Append(calls, "build_report_xlsx")
    /\ UNCHANGED <<file, sheets, meta_str, detected_type, tmpl_type, sheet_name, df,
                   errors, rules, results, notice>>

Next ==
    \/ ReadWorkbook
    \/ DetectAndSelect
    \/ FetchSheet
    \/ CheckSheet
    \/ Validate
    \/ Gate
    \/ Transform
    \/ Export

Spec == Init /\ [][Next]_vars

---------------------------------------------------------------------------
(* The validator and the business rules as functions: validate_df and      *)
(* business_rules applied to tables of every column set                    *)

\* the columns a table handed to the validator may have, per kind
ValidateUniverse(t) ==
    CASE t = "PortfolioMaster" ->
             <<"Asset Class", "Sub Asset Class", "FX", "USD Total", "Liquidity">>
      [] t = "EquityAssetList" ->
             <<"Asset (Security Name)", "Market Value (USD)", "Weight %">>
      [] t = "FixedIncomeAssetList" ->
             <<"Rating", "Weight %", "Issue Date", "Maturity Date">>

\* full rows over the universe of the kind (weights 47.0, 50.0, 50.5, 50.75;
\* dates as day numbers); a table's rows are their projections on its columns
ValidatePool(t) ==
    CASE t = "PortfolioMaster" ->
             {<<Txt, Txt, Txt, Some(2400), Txt>>,
              <<Txt, None, Txt, None, None>>,
              <<Txt, Txt, Txt, Unparseable, Txt>>}
      [] t = "EquityAssetList" ->
             {<<Txt, Some(3), Some(188)>>,
              <<Txt, Some(1), Some(200)>>,
              <<Txt, Some(1), Some(202)>>,
              <<Txt, None, Some(203)>>,
              <<None, Some(1), None>>}
      [] t = "FixedIncomeAssetList" ->
             {<<Txt, Some(188), Some(1), Some(2)>>,
              <<Txt, Some(200), Some(2), Some(1)>>,
              <<Txt, Some(202), Some(2), Some(2)>>,
              <<Txt, Some(203), None, Some(1)>>,
              <<None, None, Some(2), None>>}

\* the positions in universe of the columns cols
Positions(universe, cols) ==
    [c \in 1..Len(cols) |-> CHOOSE i \in 1..Len(universe) : universe[i] = cols[c]]

Project(row, pos) == [c \in 1..Len(pos) |-> row[pos[c]]]

\* the tables of 1..MaxRows pool rows over the columns cols
PoolTables(universe, pool, cols) ==
    {[columns |-> cols,
      data |-> [i \in 1..Len(rows) |-> Project(rows[i], Positions(universe, cols))]] :
        rows \in SeqsOf(pool, 1, MaxRows)}

ValidateTables(t) ==
    UNION {PoolTables(ValidateUniverse(t), ValidatePool(t),
                      SubSeqOf(ValidateUniverse(t), S)) :
           S \in SUBSET Range(ValidateUniverse(t))}

\* the variables the script alone uses
ScriptIdle ==
    /\ file = NoFile
    /\ meta_str = None
    /\ detected_type = None
    /\ sheet_name = None
    /\ report = None
    /\ notice = None
    /\ calls = <<>>

InitValidate ==
    /\ ScriptIdle
    /\ pc = "call_validate"
    /\ sheets = <<>>
    /\ \E t \in Kinds : /\ tmpl_type = Some(t)
                        /\ \E tab \in ValidateTables(t) : df = Some(tab)
    /\ errors = None
    /\ rules = None
    /\ results = None

CallValidate ==
    /\ pc = "call_validate"
    /\ errors' = Some(validate_df(df[1], tmpl_type[1]))
    /\ pc' = "call_rules"
    /\ UNCHANGED <<file, sheets, meta_str, detected_type, tmpl_type, sheet_name, df,
                   rules, results, report, notice, calls>>

CallBusinessRules ==
    /\ pc = "call_rules"
    /\ rules' = Some(business_rules(df[1], tmpl_type[1]))
    /\ pc' = "returned"
    /\ UNCHANGED <<file, sheets, meta_str, detected_type, tmpl_type, sheet_name, df,
                   errors, results, report, notice, calls>>

NextValidate ==
    \/ CallValidate
    \/ CallBusinessRules

SpecValidate == InitValidate /\ [][NextValidate]_vars

---------------------------------------------------------------------------
(* The transform as a function: transform_results applied to tables that   *)
(* have the required columns of their kind and any of the optional ones    *)

TransformUniverse(t) ==
    CASE t = "PortfolioMaster" ->
             <<"Asset Class", "Sub Asset Class", "FX", "USD Total", "Weight %",
               "Liquidity", "Country ISO3", "Country", "TER %",
               "Exp Return % (annual)", "ESG Score", "Carbon Intensity">>
      [] t = "EquityAssetList" ->
             <<"Asset (Security Name)", "Market Value (USD)", "Weight %",
               "Sector (GICS)", "Region">>
      [] t = "FixedIncomeAssetList" ->
             <<"Rating", "Market Value (USD)", "Weight %", "Years to Maturity",
               "Maturity (Years)", "Mod Duration", "Duration">>

\* full rows over the universe of the kind; a table's rows are their
\* projections on its columns
RowPool(t) ==
    CASE t = "PortfolioMaster" ->
             {<<Some(2), Some(1), Some(1), Some(2400), Some(240), Some(1),
                Some(1), Some(1), Some(4), Some(20), Some(8), Some(40)>>,
              <<Some(1), Some(1), Some(2), Some(1600), Some(160), None,
                None, None, None, None, None, None>>,
              <<None, Some(2), None, Some(1600), Some(159), Some(2),
                Some(2), Some(2), Some(2), Some(12), Some(4), Some(20)>>,
              <<Some(2), None, Some(1), Unparseable, None, Some(1),
                Some(1), None, Some(4), None, Some(8), None>>}
      [] t = "EquityAssetList" ->
             {<<Txt, Some(3), Some(300), Some(1), Some(2)>>,
              <<Txt, Some(1), Some(100), Some(2), None>>,
              <<Txt, Some(1), Some(100), None, Some(1)>>,
              <<None, None, Unparseable, Some(1), Some(2)>>}
      [] t = "FixedIncomeAssetList" ->
             {<<Some(1), Some(3), Some(300), Some(4), Some(4), Some(12), Some(12)>>,
              <<Some(2), Some(1), Some(100), Some(12), Some(13), Some(13), Some(40)>>,
              <<None, Some(1), Some(100), None, Some(2), Some(44), None>>,
              <<Some(1), None, Unparseable, Some(40), None, Unparseable, Some(2)>>}

\* the optional columns a table may have: any of them, the fee columns and
\* the ESG columns of a PortfolioMaster table coming in pairs
OptionalSets(t) ==
    CASE t = "PortfolioMaster" ->
             {A \cup B \cup C :
                 A \in SUBSET {"Weight %", "Liquidity", "Country ISO3", "Country"},
                 B \in {{}, {"TER %", "Exp Return % (annual)"}},
                 C \in {{}, {"ESG Score", "Carbon Intensity"}}}
      [] t = "EquityAssetList" -> SUBSET {"Weight %", "Sector (GICS)", "Region"}
      [] t = "FixedIncomeAssetList" ->
             SUBSET {"Market Value (USD)", "Weight %", "Years to Maturity",
                     "Maturity (Years)", "Mod Duration", "Duration"}

TransformTables(t) ==
    UNION {PoolTables(TransformUniverse(t), RowPool(t),
                      SubSeqOf(TransformUniverse(t), Range(RequiredOf(t)) \cup S)) :
           S \in OptionalSets(t)}

\* a Policy sheet (an asset class given twice, one unknown to the table) and a
\* PolicyMeta sheet
AuxSheets ==
    <<[name |-> S_Policy,
       df |-> [columns |-> <<"Asset Class", "Policy Weight %">>,
               data |-> << <<Some(3), Some(100)>>, <<Some(2), Some(200)>>,
                           <<Some(3), Some(100)>> >>]],
      [name |-> S_PolicyMeta,
       df |-> [columns |-> <<"Key", "Value">>,
               data |-> << <<Some("ESG_Benchmark_Score"), Some(28)>>,
                           <<Some("Carbon_Benchmark_Intensity"), Some(400)>> >>]]>>

InitTransform ==
    /\ ScriptIdle
    /\ pc = "call_transform"
    /\ \E t \in Kinds : /\ tmpl_type = Some(t)
                        /\ \E tab \in TransformTables(t) : df = Some(tab)
                        /\ sheets \in (IF t = "PortfolioMaster"
                                       THEN {<<>>, AuxSheets} ELSE {<<>>})
    /\ errors = None
    /\ rules = None
    /\ results = None

\* CallTransform with work = df in place of work = df.copy(): the helper
\* columns of the PortfolioMaster branch are written into the caller's table
CallTransformNoCopy ==
    /\ pc = "call_transform"
    /\ \E r \in transform_outcomes(df[1], tmpl_type[1], sheets) :
           IF r.raised
           THEN /\ pc' = "raised"
                /\ UNCHANGED results
           ELSE /\ results' = r.value
                /\ pc' = "returned"
    /\ df' = IF tmpl_type[1] = "PortfolioMaster"
             THEN Some(AddColumn(AddColumn(df[1], "__usd",
                                           NumOr(df[1], "USD Total", ZeroSeries(df[1]))),
                                 "__w", _coalesce_weight(df[1])))
             ELSE df
    /\ UNCHANGED <<file, sheets, meta_str, detected_type, tmpl_type, sheet_name,
                   errors, rules, report, notice, calls>>

\* results = transform_results(df, tmpl_type, sheets=sheets); the function
\* works on df.copy() and sheets["Policy"].copy()
CallTransform ==
    /\ pc = "call_transform"
    /\ \E r \in transform_outcomes(df[1], tmpl_type[1], sheets) :
           IF r.raised
           THEN /\ pc' = "raised"
                /\ UNCHANGED results
           ELSE /\ results' = r.value
                /\ pc' = "returned"
    /\ UNCHANGED <<file, sheets, meta_str, detected_type, tmpl_type, sheet_name, df,
                   errors, rules, report, notice, calls>>

NextTransform == CallTransform

SpecTransform == InitTransform /\ [][NextTransform]_vars

---------------------------------------------------------------------------
(* The validator called twice on one table: validate_df, then validate_df  *)
(* again on the table the first call left                                  *)

InitRevalidate ==
    /\ ScriptIdle
    /\ pc = "call_first"
    /\ sheets = <<>>
    /\ \E t \in Kinds : /\ tmpl_type = Some(t)
                        /\ \E tab \in ValidateTables(t) : df = Some(tab)
    /\ errors = None
    /\ rules = None
    /\ results = None

\* a first call that writes the columns it misses into the table, all NaN
CallFirstFillsIn ==
    /\ pc = "call_first"
    /\ errors' = Some(validate_df(df[1], tmpl_type[1]))
    /\ df' = Some([columns |-> df[1].columns
                                \o [k \in 1..Len(errors'[1]) |-> errors'[1][k].column[1]],
                    data |-> [i \in 1..NRows(df[1]) |->
                                df[1].data[i] \o [k \in 1..Len(errors'[1]) |-> None]]])
    /\ pc' = "call_second"
    /\ UNCHANGED <<file, sheets, meta_str, detected_type, tmpl_type, sheet_name,
                   rules, results, report, notice, calls>>

\* errors = validate_df(df, tmpl_type); the function reads df.columns and
\* writes nothing into df
CallFirst ==
    /\ pc = "call_first"
    /\ errors' = Some(validate_df(df[1], tmpl_type[1]))
    /\ pc' = "call_second"
    /\ UNCHANGED <<file, sheets, meta_str, detected_type, tmpl_type, sheet_name, df,
                   rules, results, report, notice, calls>>

\* the second call, on the same table object; results holds its list
CallSecond ==
    /\ pc = "call_second"
    /\ results' = Some(validate_df(df[1], tmpl_type[1]))
    /\ pc' = "returned"
    /\ UNCHANGED <<file, sheets, meta_str, detected_type, tmpl_type, sheet_name, df,
                   errors, rules, report, notice, calls>>

NextRevalidate == CallFirst \/ CallSecond

SpecRevalidate == InitRevalidate /\ [][NextRevalidate]_vars

---------------------------------------------------------------------------
(* Reading as a function: read_workbook applied to documents whose sheets  *)
(* parse or not, with a Meta sheet in several spellings or without one     *)

S_meta == <<"m","e","t","a">>

\* a Meta sheet whose first cell is empty
BlankMeta == [columns |-> <<"Meta">>, data |-> << <<None>> >>]

ReadNames == {S_Meta, S_meta, S_PortfolioMaster, S_Policy}

ReadTables == {MetaTable(S_Pastor), BlankMeta, HeaderOnly, NotesTable}

ReadChoices ==
    {[name |-> n, parse_ok |-> TRUE, table |-> t] : n \in ReadNames, t \in ReadTables}
    \cup {[name |-> n, parse_ok |-> FALSE, table |-> EmptyDF] : n \in ReadNames}

ReadBooks ==
    {b \in SeqsOf(ReadChoices, 0, MaxSheets) :
        \A i, j \in 1..Len(b) : i # j => b[i].name # b[j].name}

InitRead ==
    /\ file \in {NoFile} \cup {[valid |-> TRUE, book |-> b] : b \in ReadBooks}
    /\ pc = "call_read"
    /\ sheets = <<>>
    /\ meta_str = None
    /\ detected_type = None
    /\ tmpl_type = None
    /\ sheet_name = None
    /\ df = None
    /\ errors = None
    /\ rules = None
    /\ results = None
    /\ report = None
    /\ notice = None
    /\ calls = <<>>

\* sheets, meta_str = read_workbook(file)
CallReadWorkbook ==
    /\ pc = "call_read"
    /\ LET r == read_workbook(file)
       IN  IF r.raised
           THEN /\ pc' = "raised"
                /\ UNCHANGED <<sheets, meta_str>>
           ELSE /\ sheets' = r.sheets
                /\ meta_str' = r.meta
                /\ pc' = "returned"
    /\ UNCHANGED <<file, detected_type, tmpl_type, sheet_name, df, errors, rules,
                   results, report, notice, calls>>

NextRead == CallReadWorkbook

SpecRead == InitRead /\ [][NextRead]_vars

---------------------------------------------------------------------------
(* Weight resolution as a function: _coalesce_weight applied to tables     *)
(* with or without the USD Total and Weight % columns                      *)

WeightUniverse == <<"Asset Class", "USD Total", "Weight %">>

\* rows (amounts 600.0, 400.0, 0.0, missing, text; weights 50.0, 49.75, 49.5,
\* 50.25, missing)
WeightPool ==
    {<<Txt, Some(2400), Some(200)>>,
     <<Txt, Some(1600), Some(199)>>,
     <<Txt, Some(1600), Some(198)>>,
     <<Txt, Some(0), Some(200)>>,
     <<Txt, None, Some(201)>>,
     <<Txt, Unparseable, None>>}

WeightTables ==
    UNION {PoolTables(WeightUniverse, WeightPool,
                      SubSeqOf(WeightUniverse, {"Asset Class"} \cup S)) :
           S \in SUBSET {"USD Total", "Weight %"}}

InitWeight ==
    /\ ScriptIdle
    /\ pc = "call_coalesce_weight"
    /\ tmpl_type = Some("PortfolioMaster")
    /\ df \in {Some(tab) : tab \in WeightTables}
    /\ sheets = <<>>
    /\ errors = None
    /\ rules = None
    /\ results = None

\* w = _coalesce_weight(work); results holds the Series returned
CallCoalesceWeight ==
    /\ pc = "call_coalesce_weight"
    /\ results' = Some(_coalesce_weight(df[1]))
    /\ pc' = "returned"
    /\ UNCHANGED <<file, sheets, meta_str, detected_type, tmpl_type, sheet_name, df,
                   errors, rules, report, notice, calls>>

NextWeight == CallCoalesceWeight

SpecWeight == InitWeight /\ [][NextWeight]_vars

---------------------------------------------------------------------------
(* Detection as a function: detect_template_type applied to workbooks and  *)
(* metadata values of every sort                                           *)

\* sheet names: the data sheets in several spellings, and other sheets
DetectNames == DataSheetNames \cup {S_fixedincome, S_Meta, S_Policy}

\* no metadata, the empty string, str(nan), and strings naming one kind or two
DetectMetas ==
    {None, Some(<<>>), Some(S_nan), Some(S_FixedIncomeAssetList),
     Some(S_EquityAssetList \o <<" ">> \o S_Pastor),
     Some(S_FixedIncomeAssetList \o <<" ">> \o S_EquityAssetList)}
    \cup {Some(m) : m \in MetaStrings}

DetectBooks ==
    {b \in SeqsOf({[name |-> n, df |-> EmptyDF] : n \in DetectNames}, 0, MaxSheets) :
        \A i, j \in 1..Len(b) : i # j => b[i].name # b[j].name}

InitDetect ==
    /\ file = NoFile
    /\ detected_type = None
    /\ sheet_name = None
    /\ report = None
    /\ notice = None
    /\ calls = <<>>
    /\ pc = "call_detect"
    /\ sheets \in DetectBooks
    /\ meta_str \in DetectMetas
    /\ tmpl_type = None
    /\ df = None
    /\ errors = None
    /\ rules = None
    /\ results = None

\* detected_type = detect_template_type(sheets, meta_str)
CallDetect ==
    /\ pc = "call_detect"
    /\ detected_type' = Some(detect_template_type(sheets, meta_str))
    /\ pc' = "returned"
    /\ UNCHANGED <<file, sheets, meta_str, tmpl_type, sheet_name, df, errors, rules,
                   results, report, notice, calls>>

NextDetect == CallDetect

SpecDetect == InitDetect /\ [][NextDetect]_vars

---------------------------------------------------------------------------
(* The top-N tables as functions: top_assets and top_positions of tables   *)
(* with more rows than N                                                   *)

\* the tables have N + ExtraRows rows
ExtraRows == 2

TopN(t) == IF t = "PortfolioMaster" THEN TopAssetsN ELSE TopPositionsN

\* the amount of row i: different amounts for different rows, in no order
RowAmount(i) == 4 * (((i * 7) % 29) + 1)

\* a table of n rows, row i labelled i, in which row p has the amount of row q
TieTable(t, n, p, q) ==
    LET amount(i) == Some(RowAmount(IF i = p THEN q ELSE i))
    IN  IF t = "PortfolioMaster"
        THEN [columns |-> PORTFOLIO_MASTER_REQUIRED,
              data |-> [i \in 1..n |-> <<Some(i), Txt, Txt, amount(i)>>]]
        ELSE [columns |-> EQUITY_REQUIRED,
              data |-> [i \in 1..n |-> <<Some(i), amount(i)>>]]

TopTables(t) ==
    {TieTable(t, TopN(t) + ExtraRows, p, q) :
        p \in 1..(TopN(t) + ExtraRows), q \in 1..(TopN(t) + ExtraRows)}

\* out["top_assets"] (lines 313-314) and out["top_positions"] (359-361)
top_outcomes(d, t) ==
    IF t = "PortfolioMaster"
    THEN TopOutcomes(d, NumOr(d, "USD Total", ZeroSeries(d)), TopAssetsN)
    ELSE TopOutcomes(d, MarketValue(d), TopPositionsN)

InitTopN ==
    /\ ScriptIdle
    /\ pc = "call_top"
    /\ \E t \in {"PortfolioMaster", "EquityAssetList"} :
          /\ tmpl_type = Some(t)
          /\ \E tab \in TopTables(t) : df = Some(tab)
    /\ sheets = <<>>
    /\ errors = None
    /\ rules = None
    /\ results = None

\* results holds the top-N table
CallTopN ==
    /\ pc = "call_top"
    /\ \E top \in top_outcomes(df[1], tmpl_type[1]) : results' = Some(top)
    /\ pc' = "returned"
    /\ UNCHANGED <<file, sheets, meta_str, detected_type, tmpl_type, sheet_name, df,
                   errors, rules, report, notice, calls>>

NextTopN == CallTopN

SpecTopN == InitTopN /\ [][NextTopN]_vars

---------------------------------------------------------------------------
(* Properties of the script (Spec) *)

Invoked(f) == f \in Range(calls)

\* the script is past the checks of lines 88-97
AfterCheck ==
    /\ pc \notin {"read", "detect", "fetch", "check"}
    /\ tmpl_type # None

\* C1: transform_results is invoked only after read_workbook succeeded, a
\* sheet was resolved for the chosen kind, that sheet has at least one row
\* and validate_df returned an empty list; while the error list is non-empty
\* the run has reached neither the transform nor the export.
C1_TransformGated ==
    /\ Invoked("transform_results") =>
          /\ file.valid
          /\ calls[1] = "read_workbook"
          /\ df # None
          /\ df = ResolveSheet(sheets, tmpl_type[1])
          /\ NRows(df[1]) >= 1
          /\ \E i, j \in 1..Len(calls) :
                i < j /\ calls[i] = "validate_df" /\ calls[j] = "transform_results"
          /\ errors = Some(<<>>)
    /\ (errors # None /\ errors[1] # <<>>) =>
          /\ pc \in {"gate", "stopped"}
          /\ ~Invoked("transform_results")
          /\ ~Invoked("build_report_xlsx")
          /\ results = None
          /\ report = None

C1_Witness ==
    /\ Invoked("transform_results")
    /\ results # None
    /\ errors = Some(<<>>)

\* the priority the sheet resolution is stated to follow: the exact name,
\* else a case-insensitive match, else (PortfolioMaster) the Pastor alias
PriorityResolve(shs, t) ==
    LET name == get_required_sheet_for_type(t)
        first(S) == Some(shs[CHOOSE i \in S : \A j \in S : i <= j].df)
        exact == {i \in 1..Len(shs) : shs[i].name = name}
        ci == {i \in 1..Len(shs) : Lower(shs[i].name) = Lower(name)}
        alias == {i \in 1..Len(shs) :
                     t = "PortfolioMaster" /\ Lower(shs[i].name) = S_pastor}
    IN  IF exact # {} THEN first(exact)
        ELSE IF ci # {} THEN first(ci)
        ELSE IF alias # {} THEN first(alias)
        ELSE None

\* C6: the sheet fetched is the one of highest priority (exact name, else
\* case-insensitive match, else the Pastor alias), whatever the order of the
\* sheets in the workbook.
C6_SheetPriority ==
    (pc \notin {"read", "detect", "fetch"} /\ tmpl_type # None) =>
        df = PriorityResolve(sheets, tmpl_type[1])

\* C7: when the required sheet resolves but has no row, the run stops with
\* the empty-sheet warning, which is not the missing-sheet error; validate_df
\* and transform_results are not invoked and there is no result bundle.
C7_EmptySheetHalts ==
    (AfterCheck /\ df # None /\ NRows(df[1]) = 0) =>
        /\ pc = "stopped"
        /\ notice = Some([level |-> "warning", what |-> "empty sheet",
                          arg |-> sheet_name])
        /\ ~Invoked("validate_df")
        /\ ~Invoked("transform_results")
        /\ errors = None
        /\ results = None

C7_Witness ==
    /\ AfterCheck
    /\ df # None
    /\ NRows(df[1]) = 0
    /\ pc = "stopped"

\* no sheet of the workbook is a candidate for kind t
NoCandidate(shs, t) ==
    \A i \in 1..Len(shs) :
        /\ shs[i].name # get_required_sheet_for_type(t)
        /\ Lower(shs[i].name) # Lower(get_required_sheet_for_type(t))
        /\ ~(t = "PortfolioMaster" /\ Lower(shs[i].name) = S_pastor)

---------------------------------------------------------------------------
(* Properties of the validator (SpecValidate) *)

WeightMessage == "Weight % does not sum to ~100% (+-0.5)."

DateMessage == "Some bonds have Maturity Date earlier than Issue Date."

\* the table-level failures (no column) with the given description
TableLevel(errs, msg) ==
    {i \in 1..Len(errs) : errs[i].column = None /\ errs[i].failure = msg}

\* the Weight % column sums to 100.0 within 0.5
WeightRuleHolds(d) == Abs(WeightSum(d) - Hundred) <= WeightTol

\* some row has both dates, the maturity before the issue
DateRuleBroken(d) ==
    /\ _exists(d, "Maturity Date")
    /\ _exists(d, "Issue Date")
    /\ \E i \in 1..NRows(d) :
          /\ ~IsNull(Column(d, "Maturity Date")[i])
          /\ ~IsNull(Column(d, "Issue Date")[i])
          /\ Column(d, "Maturity Date")[i][1] < Column(d, "Issue Date")[i][1]

\* C2: for the Equity and FixedIncome kinds, validate returns exactly one
\* table-level failure for the weight rule when the Weight % column sums to
\* more than 0.5 away from 100.0, and none when it is within 0.5.
C2_WeightSumRule ==
    (/\ errors # None
     /\ tmpl_type[1] \in {"EquityAssetList", "FixedIncomeAssetList"}
     /\ _exists(df[1], "Weight %")) =>
        Cardinality(TableLevel(errors[1], WeightMessage))
            = (IF WeightRuleHolds(df[1]) THEN 0 ELSE 1)

\* C9: for FixedIncome, validate returns exactly one table-level failure for
\* the date rule when some row has both dates with the maturity before the
\* issue, and none otherwise; a row missing a date never causes one.
C9_DateRule ==
    (errors # None /\ tmpl_type[1] = "FixedIncomeAssetList") =>
        Cardinality(TableLevel(errors[1], DateMessage))
            = (IF DateRuleBroken(df[1]) THEN 1 ELSE 0)

IsMissingRequired(e) == e.failure = "missing required"

\* a table is valid: its required columns are there and its business rules hold
TableValid(d, t) ==
    /\ Range(RequiredOf(t)) \subseteq Range(d.columns)
    /\ (t \in {"EquityAssetList", "FixedIncomeAssetList"} /\ _exists(d, "Weight %"))
          => WeightRuleHolds(d)
    /\ t = "FixedIncomeAssetList" => ~DateRuleBroken(d)

\* C10: validate reports one "missing required" failure for every absent
\* required column, all of them, in declaration order, nothing for an absent
\* optional column, and returns the empty list exactly when the table is valid.
C10_MissingRequiredAndValid ==
    errors # None =>
        LET d == df[1]
            t == tmpl_type[1]
            missing == SubSeqOf(RequiredOf(t), Range(RequiredOf(t)) \ Range(d.columns))
            reported == SelectSeq(errors[1], IsMissingRequired)
        IN  /\ Len(reported) = Len(missing)
            /\ \A i \in 1..Len(missing) : reported[i].column = Some(missing[i])
            /\ (errors[1] = <<>>) <=> TableValid(d, t)

\* the columns the schemas of processing/schema.py declare as numbers
NumericColumns == {"USD Total", "Market Value (USD)", "Weight %"}

\* the failures validate records for column c other than its absence
CoercionFailures(errs, c) ==
    {i \in 1..Len(errs) : errs[i].column = Some(c) /\ errs[i].failure # "missing required"}

\* C11: for every present column declared as a number, validate records one
\* failure tagged with the column for each cell that cannot be coerced to a
\* number, and none for the cells that can.
C11_CoercionFailures ==
    errors # None =>
        \A c \in NumericColumns \cap Range(df[1].columns) :
            Cardinality(CoercionFailures(errors[1], c))
                = Cardinality({i \in 1..NRows(df[1]) : IsText(Column(df[1], c)[i])})

---------------------------------------------------------------------------
(* Properties of the weight resolution (SpecWeight) *)

\* the explicit weights of the table
ExplicitWeights(d) == _num(Column(d, "Weight %"))

\* the amounts of the table
Amounts(d) == _num(Column(d, "USD Total"))

\* the explicit weights do not sum to 100 within 0.25
WeightsOff(d) ==
    QLess(QInt(RecomputeTol), QAbs(QSub(QSum(ExplicitWeights(d)), QInt(Hundred))))

\* w is the amounts normalized to sum to 100: proportional to them, sum 100
IsNormalized(w, usd) ==
    /\ Len(w) = Len(usd)
    /\ QSum(w) = QInt(Hundred)
    /\ \A i \in 1..Len(w) :
          /\ IsNull(w[i]) <=> IsNull(usd[i])
          /\ ~IsNull(w[i]) => QMul(w[i][1], QSum(usd)) = QMul(usd[i][1], QInt(Hundred))

AllZero(w, d) == Len(w) = NRows(d) /\ \A i \in 1..Len(w) : w[i] = Some(QZero)

PositiveTotal(d) == _exists(d, "USD Total") /\ QLess(QZero, QSum(Amounts(d)))

SumsToHundred(w) ==
    QLeq(QAbs(QSub(QSum(w), QInt(Hundred))), QInt(RecomputeTol))

---------------------------------------------------------------------------
(* Properties of the transform (SpecTransform) *)

\* the position of the right-open interval [lo, hi) that holds x
RightOpenIndex(x) ==
    1 + Cardinality({k \in 1..Len(BinEdges) : QLeq(QInt(BinEdges[k]), x)})

RightOpenCut(series, labels) ==
    [i \in 1..Len(series) |->
        IF IsNull(series[i]) THEN None ELSE Some(labels[RightOpenIndex(series[i][1])])]

\* the bucket table of a metric column under right-open boundaries
RightOpenBuckets(d, col, labels) ==
    BucketFrame(RightOpenCut(_num(Column(d, col)), labels),
                ListWeight(d, MarketValue(d)), labels)

\* C3: the maturity and duration buckets are right-open: a row whose metric
\* equals a boundary 1, 3, 5, 7 or 10 adds its weight to the bucket that
\* starts there (duration 3.0 to "3-5"), not to the one that ends there.
C3_RightOpenBuckets ==
    (pc = "returned" /\ tmpl_type[1] = "FixedIncomeAssetList") =>
        /\ mat_col(df[1]) # None =>
              results[1].maturity_buckets
                  = RightOpenBuckets(df[1], mat_col(df[1])[1], MaturityLabels)
        /\ dur_col(df[1]) # None =>
              results[1].duration_buckets
                  = RightOpenBuckets(df[1], dur_col(df[1])[1], DurationLabels)

\* C4: transform never raises on a table that passes validate for its kind:
\* it returns a bundle in which an output whose aggregation column is absent
\* is the empty placeholder with its column headers.
C4_PlaceholderNotRaise ==
    (pc # "call_transform" /\ validate_df(df[1], tmpl_type[1]) = <<>>) =>
        /\ pc = "returned"
        /\ (tmpl_type[1] = "PortfolioMaster" /\ ~_exists(df[1], "Liquidity")) =>
              results[1].by_liquidity = Placeholder(<<"Liquidity", "USD Total">>)
        /\ (tmpl_type[1] = "FixedIncomeAssetList" /\ ~_exists(df[1], "Weight %")
                /\ ~_exists(df[1], "Market Value (USD)")) =>
              results[1].by_rating = Placeholder(<<"Rating", "Weight %">>)
        /\ (tmpl_type[1] = "EquityAssetList" /\ ~_exists(df[1], "Weight %")) =>
              /\ results[1].by_sector = Placeholder(<<"Sector (GICS)", "Weight %">>)
              /\ results[1].by_region = Placeholder(<<"Region", "Weight %">>)

\* the rows of d with a null key in col make a group of their own in frame
NullGroupKept(d, col, frame) ==
    (_exists(d, col) /\ \E i \in 1..NRows(d) : IsNull(Column(d, col)[i])) =>
        \E g \in 1..NRows(frame) : IsNull(frame.data[g][1])

\* C5: in every group table of the bundle the rows whose grouping value is
\* null form their own group; they are never dropped.
C5_NullGroupKept ==
    pc = "returned" =>
        LET d == df[1]
            r == results[1]
        IN  /\ tmpl_type[1] = "PortfolioMaster" =>
                  /\ NullGroupKept(d, "Asset Class", r.by_asset_class)
                  /\ NullGroupKept(d, "Sub Asset Class", r.by_sub_asset)
                  /\ NullGroupKept(d, "FX", r.by_fx)
                  /\ NullGroupKept(d, "Liquidity", r.by_liquidity)
                  /\ NullGroupKept(d, IF _exists(d, "Country ISO3") THEN "Country ISO3"
                                      ELSE "Country", r.by_country)
            /\ tmpl_type[1] = "EquityAssetList" =>
                  /\ NullGroupKept(d, "Sector (GICS)", r.by_sector)
                  /\ NullGroupKept(d, "Region", r.by_region)
            /\ tmpl_type[1] = "FixedIncomeAssetList" =>
                  NullGroupKept(d, "Rating", r.by_rating)

\* the entries of vals at the rows (groups) whose key is not null
AtKeys(keys, vals) ==
    [i \in 1..Len(keys) |-> IF IsNull(keys[i]) THEN None ELSE vals[i]]

\* the groups of frame with a key add up to the values vals of the rows of d
\* that have a key in column by
Conserved(d, by, vals, frame) ==
    _exists(d, by) =>
        /\ \A g \in 1..NRows(frame) : ~IsText(frame.data[g][2])
        /\ QSum(AtKeys(Column(frame, frame.columns[1]), Column(frame, frame.columns[2])))
              = QSum(AtKeys(Column(d, by), vals))

\* C14: for every group table, the output values of the groups with a key
\* sum to the input values of the rows with a key, a value that is no number
\* counting as zero.
C14_Conservation ==
    pc = "returned" =>
        LET d == df[1]
            r == results[1]
            usd == _num(Column(d, "USD Total"))
            lw == IF _exists(d, "Weight %") THEN _num(Column(d, "Weight %"))
                  ELSE _num(Column(d, "Market Value (USD)"))
        IN  /\ tmpl_type[1] = "PortfolioMaster" =>
                  /\ Conserved(d, "Asset Class", usd, r.by_asset_class)
                  /\ Conserved(d, "Sub Asset Class", usd, r.by_sub_asset)
                  /\ Conserved(d, "FX", usd, r.by_fx)
                  /\ Conserved(d, "Liquidity", usd, r.by_liquidity)
                  /\ Conserved(d, IF _exists(d, "Country ISO3") THEN "Country ISO3"
                                  ELSE "Country", usd, r.by_country)
            /\ tmpl_type[1] = "EquityAssetList" =>
                  /\ Conserved(d, "Sector (GICS)", lw, r.by_sector)
                  /\ Conserved(d, "Region", lw, r.by_region)
            /\ tmpl_type[1] = "FixedIncomeAssetList" =>
                  Conserved(d, "Rating", lw, r.by_rating)

\* the groups of frame come in descending order of their summed value
Descending(frame) ==
    \A g \in 1..NRows(frame) : \A h \in 1..NRows(frame) :
        (g < h /\ ~IsText(frame.data[g][2]) /\ ~IsText(frame.data[h][2])) =>
            QLeq(frame.data[h][2][1], frame.data[g][2][1])

\* C15: every group table of the bundle lists its groups in descending order
\* of the summed value column, and usd_total_sum is the sum of USD Total.
C15_GroupsDescending ==
    pc = "returned" =>
        LET r == results[1]
        IN  /\ tmpl_type[1] = "PortfolioMaster" =>
                  /\ Descending(r.by_asset_class)
                  /\ Descending(r.by_sub_asset)
                  /\ Descending(r.by_fx)
                  /\ Descending(r.by_liquidity)
                  /\ Descending(r.by_country)
                  /\ r.metrics.usd_total_sum = QSum(_num(Column(df[1], "USD Total")))
            /\ tmpl_type[1] = "EquityAssetList" =>
                  /\ Descending(r.by_sector)
                  /\ Descending(r.by_region)
            /\ tmpl_type[1] = "FixedIncomeAssetList" => Descending(r.by_rating)

\* the metric of the rows is a number
MetricPresent(d, col) == _num(Column(d, col))

\* the weights of the rows whose metric is a number
WeightsAtMetric(d, col, w) ==
    [i \in 1..NRows(d) |-> IF IsNull(MetricPresent(d, col)[i]) THEN None ELSE w[i]]

\* the weights of frame are those of the rows taken once each: some
\* assignment of the metric-present rows to the buckets gives every bucket its
\* total, and a row without a number is assigned to no bucket
IsPartition(d, col, w, frame, labels) ==
    LET present == {i \in 1..NRows(d) : ~IsNull(MetricPresent(d, col)[i])}
    IN  /\ \A k \in 1..NRows(frame) : frame.data[k][1][1] \in Range(labels)
        /\ QSum(Column(frame, "Weight %")) = QSum(WeightsAtMetric(d, col, w))
        /\ \E assign \in [present -> 1..NRows(frame)] :
              \A k \in 1..NRows(frame) :
                  frame.data[k][2]
                      = Some(QSum([i \in 1..NRows(d) |->
                                     IF i \in present /\ assign[i] = k THEN w[i] ELSE None]))

\* C16: the buckets partition the rows that have a maturity (duration): each
\* such row adds its weight to exactly one bucket, a row whose metric is
\* missing or no number adds to none, and the bucket weights sum to the
\* weights of the rows with a metric.
C16_BucketPartition ==
    (pc = "returned" /\ tmpl_type[1] = "FixedIncomeAssetList") =>
        LET d == df[1]
            w == ListWeight(d, MarketValue(d))
        IN  /\ mat_col(d) # None =>
                  IsPartition(d, mat_col(d)[1], w, results[1].maturity_buckets, MaturityLabels)
            /\ dur_col(d) # None =>
                  IsPartition(d, dur_col(d)[1], w, results[1].duration_buckets, DurationLabels)

\* a duration table with a row whose metric is a number and a row whose
\* metric is missing or text, both with weight
C16_Witness ==
    /\ pc = "returned"
    /\ tmpl_type[1] = "FixedIncomeAssetList"
    /\ dur_col(df[1]) # None
    /\ LET m == MetricPresent(df[1], dur_col(df[1])[1])
           w == ListWeight(df[1], MarketValue(df[1]))
       IN  /\ \E i \in 1..NRows(df[1]) : ~IsNull(m[i]) /\ ~IsNull(w[i]) /\ w[i] # Some(QZero)
           /\ \E i \in 1..NRows(df[1]) : IsNull(m[i]) /\ ~IsNull(w[i]) /\ w[i] # Some(QZero)
    /\ QSum(Column(results[1].duration_buckets, "Weight %"))
          # QSum(ListWeight(df[1], MarketValue(df[1])))

\* the numbers of a metric column, every row missing when the column is absent
MetricOf(d, col) ==
    IF _exists(d, col) THEN _num(Column(d, col)) ELSE [i \in 1..NRows(d) |-> None]

\* sum over all rows of metric[i] * weight[i] / 100, a row with a missing
\* metric (or weight) adding zero
WeightedAverage(metric, w) ==
    QSum([i \in 1..Len(w) |->
            IF IsNull(metric[i]) \/ IsNull(w[i]) THEN None
            ELSE Some(QDiv(QMul(metric[i][1], w[i][1]), QInt(Hundred)))])

\* C17: gross expected return, weighted TER, portfolio ESG and portfolio
\* carbon are each the sum over all rows of metric * weight / 100 with the
\* resolved weights, whether or not these sum to 100.
C17_WeightedAverages ==
    (pc = "returned" /\ tmpl_type[1] = "PortfolioMaster") =>
        LET d == df[1]
            r == results[1]
            w == _coalesce_weight(d)
        IN  /\ r.fees_returns.gross = WeightedAverage(MetricOf(d, "Exp Return % (annual)"), w)
            /\ r.fees_returns.ter_w = WeightedAverage(MetricOf(d, "TER %"), w)
            /\ r.esg.portfolio_esg = WeightedAverage(MetricOf(d, "ESG Score"), w)
            /\ r.esg.portfolio_carbon = WeightedAverage(MetricOf(d, "Carbon Intensity"), w)

\* the rows of the Policy sheet
PolicyRows == SheetsGet(sheets, S_Policy)[1]

\* the asset classes of the table, and those of the Policy sheet
ActualClasses(d) ==
    {Column(d, "Asset Class")[i][1] :
        i \in {j \in 1..NRows(d) : ~IsNull(Column(d, "Asset Class")[j])}}

PolicyClasses ==
    {Column(PolicyRows, "Asset Class")[i][1] :
        i \in {j \in 1..NRows(PolicyRows) : ~IsNull(Column(PolicyRows, "Asset Class")[j])}}

\* the values of vals at the rows whose key is the class k
OfClass(keys, vals, k) ==
    [i \in 1..Len(keys) |-> IF keys[i] = Some(k) THEN vals[i] ELSE None]

\* the share of class k in the total USD Total, in percent
ActualShare(d, k) ==
    LET usd == _num(Column(d, "USD Total"))
    IN  IF QSum(usd) = QZero THEN QZero
        ELSE QDiv(QMul(QSum(OfClass(Column(d, "Asset Class"), usd, k)), QInt(Hundred)),
                  QSum(usd))

\* the target of class k: its Policy rows summed
PolicyTarget(k) ==
    QSum(OfClass(Column(PolicyRows, "Asset Class"),
                 _num(Column(PolicyRows, "Policy Weight %")), k))

\* C19: the policy-vs-actual table has every asset class of the actual
\* allocation or of the Policy table exactly once, with its actual share and
\* its summed policy targets, 0 on the side where the class is absent.
C19_PolicyOuterJoin ==
    (pc = "returned" /\ tmpl_type[1] = "PortfolioMaster" /\ SheetsGet(sheets, S_Policy) # None) =>
        /\ results[1].policy_compare # None
        /\ LET d == df[1]
               comp == results[1].policy_compare[1]
               rowsOf(k) == {g \in 1..NRows(comp) : comp.data[g][1] = Some(k)}
           IN  \A k \in ActualClasses(d) \cup PolicyClasses :
                  /\ Cardinality(rowsOf(k)) = 1
                  /\ \A g \in rowsOf(k) :
                        /\ comp.data[g][2]
                              = Some(IF k \in ActualClasses(d) THEN ActualShare(d, k) ELSE QZero)
                        /\ comp.data[g][3]
                              = Some(IF k \in PolicyClasses THEN PolicyTarget(k) ELSE QZero)

\* a comparison with a class held but without target, a class with a target
\* but not held, and a class with two Policy rows
C19_Witness ==
    /\ pc = "returned"
    /\ tmpl_type[1] = "PortfolioMaster"
    /\ SheetsGet(sheets, S_Policy) # None
    /\ results[1].policy_compare # None
    /\ ActualClasses(df[1]) \ PolicyClasses # {}
    /\ PolicyClasses \ ActualClasses(df[1]) # {}
    /\ ActualClasses(df[1]) \cap PolicyClasses # {}
    /\ \E i, j \in 1..NRows(PolicyRows) :
          i # j /\ PolicyRows.data[i][1] = PolicyRows.data[j][1]

---------------------------------------------------------------------------
(* Properties of the detection (SpecDetect) *)

\* the words that name a kind in the metadata, and the sheet names that do
MetaWords ==
    {S_portfoliomaster, S_pastor, S_equityassetlist, S_fixedincomeassetlist,
     S_fixed_income}

NameWords ==
    {S_portfoliomaster, S_pastor, S_equityassetlist, S_fixedincomeassetlist,
     S_fixedincome}

MetaMatches ==
    /\ meta_str # None
    /\ \E w \in MetaWords : Contains(Lower(meta_str[1]), w)

NameMatches == \E i \in 1..Len(sheets) : Lower(sheets[i].name) \in NameWords

\* C20: detection returns one of the three kinds for every workbook and every
\* metadata value (absent, empty, matching no kind), and PortfolioMaster when
\* neither the metadata nor a sheet name matches a kind.
C20_DetectTotal ==
    pc = "returned" =>
        /\ detected_type # None
        /\ detected_type[1] \in Kinds
        /\ (~MetaMatches /\ ~NameMatches) => detected_type[1] = "PortfolioMaster"

\* a workbook with sheets and a metadata string, none of which names a kind
C20_Witness ==
    /\ pc = "returned"
    /\ sheets # <<>>
    /\ meta_str = Some(S_nan)
    /\ ~MetaMatches
    /\ ~NameMatches
    /\ detected_type = Some("PortfolioMaster")

\* the metadata string contains the word w, whatever the case
MetaHas(w) == meta_str # None /\ Contains(Lower(meta_str[1]), w)

\* the first kind, in the order of the list, that the metadata string names
FirstNamedKind ==
    IF MetaHas(S_portfoliomaster) \/ MetaHas(S_pastor) THEN "PortfolioMaster"
    ELSE IF MetaHas(S_equityassetlist) THEN "EquityAssetList"
    ELSE "FixedIncomeAssetList"

\* C21: when the metadata string contains the canonical name of a kind (or
\* "pastor"), whatever the case, detection returns the first such kind in the
\* order PortfolioMaster, EquityAssetList, FixedIncomeAssetList, whatever the
\* sheet names of the workbook.
C21_MetaFirstMatch ==
    (/\ pc = "returned"
     /\ \E w \in {S_portfoliomaster, S_pastor, S_equityassetlist, S_fixedincomeassetlist} :
           MetaHas(w))
        => detected_type = Some(FirstNamedKind)

\* a metadata string that names two kinds, in a workbook whose sheet names
\* name another kind than the first of them
C21_Witness ==
    /\ pc = "returned"
    /\ MetaHas(S_equityassetlist)
    /\ MetaHas(S_fixedincomeassetlist)
    /\ \E i \in 1..Len(sheets) : Lower(sheets[i].name) = S_portfoliomaster
    /\ detected_type = Some("EquityAssetList")

---------------------------------------------------------------------------
(* Properties of the top-N tables (SpecTopN) *)

\* the value column the top-N table of the kind is ordered by
TopValues(d, t) ==
    _num(Column(d, IF t = "PortfolioMaster" THEN "USD Total" ELSE "Market Value (USD)"))

\* the first n rows of d in descending order of vals, rows of equal value in
\* their input order
StableTop(d, vals, n) == HeadRows(Reorder(d, SortIdxDesc(vals)), n)

\* C18: top_assets (N = 15) and top_positions (N = 25) have at most N rows,
\* the first N rows of the input in descending order of the value column,
\* rows of equal value in their original input order.
C18_TopNStable ==
    pc = "returned" =>
        /\ NRows(results[1]) <= TopN(tmpl_type[1])
        /\ results[1] = StableTop(df[1], TopValues(df[1], tmpl_type[1]), TopN(tmpl_type[1]))

---------------------------------------------------------------------------
(* Properties of the bundle of a FixedIncomeAssetList table (SpecTransform) *)

\* the metrics of the three lists: row count, market-value sum, weight sum
ListMetrics == {"n_rows", "mv_sum", "w_sum"}

\* C22: the bundle of a FixedIncomeAssetList table holds the row count, the
\* market-value sum, the weight sum and, beside them, the MV-weighted
\* modified duration, with the rating table and the maturity and duration
\* buckets.
C22_FixedIncomeBundle ==
    (pc = "returned" /\ tmpl_type[1] = "FixedIncomeAssetList") =>
        /\ {"metrics", "by_rating", "maturity_buckets", "duration_buckets"}
              \subseteq DOMAIN results[1]
        /\ ListMetrics \subseteq DOMAIN results[1].metrics
        /\ DOMAIN results[1].metrics \ ListMetrics # {}

---------------------------------------------------------------------------
(* Properties of the end of a run (Spec) *)

\* the steps of the script
Steps == {"read", "detect", "fetch", "check", "validate", "gate", "transform", "export"}

\* the run is over: no step of the script is left
RunOver == pc \notin Steps

\* the script stopped with the notice what
StoppedWith(what) == pc = "stopped" /\ notice # None /\ notice[1].what = what

\* the five ends of a run, by name
EndHolds(e) ==
    CASE e = "read error" -> StoppedWith("read failed")
      [] e = "missing sheet" -> StoppedWith("missing sheet")
      [] e = "empty sheet" -> StoppedWith("empty sheet")
      [] e = "validation failed" -> pc = "stopped" /\ errors # None /\ errors[1] # <<>>
      [] e = "completed" -> pc = "done" /\ results # None

Ends == {"read error", "missing sheet", "empty sheet", "validation failed", "completed"}

\* C23: a run that is over is in exactly one of the five ends (read error,
\* missing sheet, empty sheet, validation failed, completed with a bundle),
\* and no run has both a non-empty list of validation errors and a bundle.
C23_OneTerminalOutcome ==
    /\ RunOver => Cardinality({e \in Ends : EndHolds(e)}) = 1
    /\ ~(errors # None /\ errors[1] # <<>> /\ results # None)

---------------------------------------------------------------------------
(* Properties of the active kind (Spec) *)

\* the kind whose canonical sheet has the name n
KindOfSheet(n) == CHOOSE k \in Kinds : get_required_sheet_for_type(k) = n

\* the sheets the spreadsheet export holds for the kind k, beside the summary
SheetsOfKind(k) ==
    CASE k = "PortfolioMaster" -> {"ByAssetClass", "BySubAsset", "Currency", "TopAssets"}
      [] k = "EquityAssetList" -> {"BySector", "ByRegion", "TopPositions"}
      [] k = "FixedIncomeAssetList" -> {"ByRating", "Maturity", "Duration"}

\* C24: the kind the caller chose (the detected kind unless overridden) is
\* the kind of the sheet resolution, the validation, the transform and the
\* exports of the run; a detected kind that was overridden is the kind of
\* no step.
C24_OneActiveKind ==
    /\ (sheet_name # None) => KindOfSheet(sheet_name[1]) = tmpl_type[1]
    /\ (errors # None) => errors[1] = validate_df(df[1], tmpl_type[1])
    /\ (results # None) =>
          Returned(results[1]) \in transform_outcomes(df[1], tmpl_type[1], sheets)
    /\ (report # None) =>
          /\ report[1].pdf.template_type = tmpl_type[1]
          /\ ReportKind(results[1]) = Some(tmpl_type[1])

---------------------------------------------------------------------------
(* Properties of the validator called twice (SpecRevalidate) *)

---------------------------------------------------------------------------
(* Properties of the frame of the transform (SpecTransform) *)

\* the helper columns of the transform
HelperColumns == {"__usd", "__w", "__mv"}

\* the keys of a bundle that hold a table
TableKeys ==
    {"by_asset_class", "by_sub_asset", "by_fx", "by_liquidity", "by_country",
     "top_assets", "by_sector", "by_region", "top_positions", "by_rating",
     "maturity_buckets", "duration_buckets"}

\* the tables of the bundle b
BundleTables(b) ==
    {b[k] : k \in TableKeys \cap DOMAIN b}
    \cup (IF "policy" \in DOMAIN b /\ b.policy # None THEN {b.policy[1]} ELSE {})
    \cup (IF "policy_compare" \in DOMAIN b /\ b.policy_compare # None
          THEN {b.policy_compare[1]} ELSE {})

\* C26: the transform leaves the input table and every auxiliary sheet as
\* they were, and once it has returned no helper column (__usd, __w, __mv) is
\* in the input table or in a table of the bundle.
C26_TransformReadsOnly ==
    /\ [][df' = df /\ sheets' = sheets]_vars
    /\ [](pc = "returned" =>
            /\ Range(df[1].columns) \cap HelperColumns = {}
            /\ \A tab \in BundleTables(results[1]) :
                  Range(tab.columns) \cap HelperColumns = {})

\* a PortfolioMaster bundle with its group tables, the top assets and the
\* policy tables, made from a table and the Policy and PolicyMeta sheets
C26_Witness ==
    /\ pc = "returned"
    /\ tmpl_type[1] = "PortfolioMaster"
    /\ sheets = AuxSheets
    /\ results[1].policy_compare # None
    /\ NRows(results[1].by_asset_class) > 0
    /\ NRows(results[1].top_assets) > 0
    /\ Cardinality(BundleTables(results[1])) >= 5

---------------------------------------------------------------------------
(* Properties of the read (SpecRead) *)

\* C27: the read of a document returns one table for every sheet, under the
\* sheet's name: an empty table for a sheet that fails to parse, the sheet's
\* rows for the others, and it does not end on a sheet that fails; the
\* metadata string is there only if a sheet named exactly "Meta" is there and
\* has rows, and its absence is no error.
C27_ReadEverySheet ==
    /\ file.valid => pc # "raised"
    /\ pc = "returned" =>
          /\ Len(sheets) = Len(file.book)
          /\ \A i \in 1..Len(sheets) :
                /\ sheets[i].name = file.book[i].name
                /\ ~file.book[i].parse_ok => sheets[i].df = EmptyDF
                /\ file.book[i].parse_ok => sheets[i].df.data = file.book[i].table.data
          /\ meta_str # None =>
                \E i \in 1..Len(sheets) :
                    sheets[i].name = S_Meta /\ NRows(sheets[i].df) > 0

\* a document with a sheet that fails to parse beside a sheet "meta" that
\* has a first cell: both are returned, without a metadata string
C27_Witness ==
    /\ pc = "returned"
    /\ \E i \in 1..Len(sheets) : ~file.book[i].parse_ok /\ sheets[i].df = EmptyDF
    /\ \E j \in 1..Len(sheets) : sheets[j].name = S_meta /\ NRows(sheets[j].df) > 0
    /\ meta_str = None

---------------------------------------------------------------------------
(* Properties of the spreadsheet export (Spec) *)

\* C28: after a completed run the bundle holds the key "template_type" with
\* the kind that was processed, and the spreadsheet built from the bundle
\* holds the sheets of that kind.
C28_ExportKindSheets ==
    pc = "done" =>
        /\ ReportKind(results[1]) = Some(tmpl_type[1])
        /\ SheetsOfKind(tmpl_type[1]) \subseteq Range(report[1].xlsx)

====
